---- MODULE Spec2Model ----
(***************************************************************************)
(* spica::RexxString (RexxString.hpp, RexxString.cpp), pMULTITHREADED      *)
(* build: reference counted string_node representations shared by         *)
(* RexxString handles.  The methods of RexxString.cpp run under the one    *)
(* string_lock; the inline conversion of RexxString.hpp takes no lock.     *)
(*                                                                         *)
(* Threads execute the methods statement group by statement group.  Each   *)
(* thread has a call stack of frames, one per method in progress, so that  *)
(* operator+, operator>> and the value returning methods run the very      *)
(* same constructor, append, assignment and destructor steps as a client   *)
(* that calls them directly.                                               *)
(***************************************************************************)
EXTENDS Integers, Sequences, FiniteSets, TLC

\* ------------------------------------------------------------------ bounds

\* Longest text a client call may ask for (the call is not made beyond it).
MaxLen == 2

\* How often each thread of str_testsMT goes round its loop.
Rounds == 2

\* ------------------------------------------------------------- the universe

Threads == {"t1", "t2"}

\* The client's RexxString objects (str_testsMT: A and B, created with new).
Global == {"A", "B"}

\* The local `temp` / `result` object of the method a thread is running.
Tmp(t) == IF t = "t1" THEN "temp1" ELSE "temp2"

\* The object a value returning method returns into.
Ret(t) == IF t = "t1" THEN "ret1" ELSE "ret2"

\* The local `result` of a method that another method with a local calls
\* (center calls left).
Tmp2(t) == IF t = "t1" THEN "inner1" ELSE "inner2"

\* The threads that call methods with a local or returned object.
Workers == {"t1"}

\* Two more client objects, for client code that works on four strings.
Extra == {"C", "D"}

Handles ==
    Global \cup Extra
        \cup {Tmp(t) : t \in Workers} \cup {Tmp2(t) : t \in Workers} \cup {Ret(t) : t \in Workers}

\* Enough string_node slots for every handle plus one new_node per thread.
Nodes == 1 .. (Cardinality(Handles) + Cardinality(Threads))

\* The slot of a node not yet adopted that thread t is building.
NewHome(t) == Cardinality(Handles) + (IF t = "t1" THEN 1 ELSE 2)

\* The slot of a node whose first referrer is h.
Home(h) ==
    CASE h = "A" -> 1
      [] h = "B" -> 2
      [] h = "temp1" -> 3
      [] h = "ret1" -> 4
      [] h = "C" -> 5
      [] h = "D" -> 6
      [] OTHER -> 7

\* nullptr, as a string_node pointer.
NULL == 0

\* A pointer whose string_node has been deleted.
DANGLING == -1

Chars == {"a", "x"}

\* A null `const char *`.
NullCStr == <<"nullptr">>

\* The C-strings and characters the client passes.
CStrings == {<< >>, <<"a">>}
AppendChars == {"x"}
Pads == {"x"}

\* The lines waiting in the input stream handed to operator>>.
Inputs == {<<"a">>, <<"x", "\n", "a">>}

\* Every text of at most n characters.
Texts(n) == UNION {[1 .. k -> Chars] : k \in 0 .. n}

VARIABLES
    live,          \* live[h]: object h has been constructed and not destroyed
    rep,           \* rep[h]: RexxString::rep, a string_node pointer
    node,          \* the heap: per slot, alloc, count, workspace (text), cap
    holds,         \* holds[t]: how often thread t holds string_lock
    stack,         \* stack[t]: the frames of the methods thread t is running
    hist,          \* hist[t]: operand values t's outermost call found at its steps
    unlockedAcc,   \* the method that just touched shared state without the lock
    ub,            \* the kinds of undefined behaviour executed so far
    prog,          \* the client program: its objects and prog.calls[t], thread t's calls
    ip             \* ip[t]: how many of the calls of prog.calls[t] thread t has made

vars == <<live, rep, node, holds, stack, hist, unlockedAcc, ub, prog, ip>>

\* ---------------------------------------------------------------- the heap

\* by: the running call that made the node, as thread and depth of its frame
\* (NoTag once that call has returned).
NoTag == << >>
Tag(t, d) == <<t, d>>

FreeNode == [alloc |-> FALSE, count |-> 0, workspace |-> << >>, cap |-> 0, by |-> NoTag]

\* string_node( ) : count( 1 ), workspace( nullptr ), then workspace = new char[c]
\* filled with the text w.
NewNode(w, c, by) == [alloc |-> TRUE, count |-> 1, workspace |-> w, cap |-> c, by |-> by]

\* operator new: some free slot.
NewNodeId(nd) == CHOOSE n \in Nodes : ~nd[n].alloc /\ \A m \in Nodes : ~nd[m].alloc => n <= m

IsNode(nd, n) == n \in Nodes /\ nd[n].alloc

\* The kind of undefined behaviour a step executes when c holds: "freed" is
\* a use of a deleted string_node, "overrun" a write past the end of workspace,
\* "before" a pointer stepped to before the first character of workspace.
Bad(c, kind) == IF c THEN {kind} ELSE {}

\* The undefined behaviour of the accesses acc of a method, the numbers of
\* acc.reads and acc.others being the places (from 0) it reads in the
\* workspace of this, of n characters, and of its argument, of m characters,
\* and the numbers of acc.writes the places it writes in a new char[acc.alloc]:
\* "underread" and "overread" are reads before the first character and
\* beyond the null character, "overrun" is a write beyond the new array.
Trap(acc, n, m) ==
    Bad(\E i \in acc.reads : i < 0, "underread")
        \cup Bad((\E i \in acc.reads : i > n) \/ (\E i \in acc.others : i > m), "overread")
        \cup Bad(\E i \in acc.writes : i >= acc.alloc, "overrun")

\* p->workspace read as a C-string.
Text(nd, n) == IF IsNode(nd, n) THEN nd[n].workspace ELSE << >>

Val(h) == Text(node, rep[h])

\* if( rep->count > 1 ) rep->count--; else { delete [] rep->workspace; delete rep; }
ReleaseNode(nd, n) ==
    IF ~IsNode(nd, n) THEN nd
    ELSE IF nd[n].count > 1 THEN [nd EXCEPT ![n].count = @ - 1]
    ELSE [nd EXCEPT ![n] = FreeNode]

\* rep->count++
AcquireNode(nd, n) == IF IsNode(nd, n) THEN [nd EXCEPT ![n].count = @ + 1] ELSE nd

\* Addresses are only ever compared for equality, so the heap is kept in a
\* normal form: a node sits in the home slot of the first object whose rep
\* points to it, a node no object has adopted yet in the slot of the thread
\* building it, any other node in the spare slots; a pointer to a deleted
\* node is DANGLING.
Referrers(rp, n) == {h \in Handles : rp[h] = n}
Builders(st, n) == {t \in Threads : \E i \in 1 .. Len(st[t]) : st[t][i].new_node = n}
Least(S) == CHOOSE x \in S : \A y \in S : x <= y
Nth(S, k) == CHOOSE x \in S : Cardinality({y \in S : y < x}) = k

Slot(rp, st, n) ==
    IF Referrers(rp, n) # {} THEN Least({Home(h) : h \in Referrers(rp, n)})
    ELSE IF Builders(st, n) # {} THEN Least({NewHome(t) : t \in Builders(st, n)})
    ELSE 0

\* Where each slot's node goes: owned nodes to their slot, unowned ones to the
\* spare slots in order, freed slots nowhere.
Moves(rp, nd, st) ==
    LET slot == [n \in Nodes |-> IF nd[n].alloc THEN Slot(rp, st, n) ELSE 0]
        lost == {n \in Nodes : nd[n].alloc /\ slot[n] = 0}
        spare == Nodes \ {slot[n] : n \in Nodes}
    IN  [n \in Nodes |->
           IF ~nd[n].alloc THEN DANGLING
           ELSE IF n \in lost THEN Nth(spare, Cardinality({m \in lost : m < n}))
           ELSE slot[n]]

MovePtr(mv, p) == IF p \in Nodes THEN mv[p] ELSE p

\* The objects, heap and frames rp, nd, st become the next state.
Store(rp, nd, st) ==
    \E mv \in {Moves(rp, nd, st)} :
      /\ rep' = [h \in Handles |-> MovePtr(mv, rp[h])]
      /\ node' = [m \in Nodes |->
                    IF \E n \in Nodes : mv[n] = m
                    THEN nd[CHOOSE n \in Nodes : mv[n] = m]
                    ELSE FreeNode]
      /\ stack' = [u \in Threads |-> [i \in 1 .. Len(st[u]) |->
                     [st[u][i] EXCEPT !.ptr = MovePtr(mv, @),
                                      !.ptr2 = MovePtr(mv, @),
                                      !.new_node = MovePtr(mv, @)]]]

\* ------------------------------------------------------------------ frames

NoPre == [valid |-> FALSE]

\* What a method finds when its grabber has taken the lock.
Snapshot ==
    [valid |-> TRUE, live |-> live, rep |-> rep,
     val |-> [h \in Handles |-> Text(node, rep[h])],
     count |-> [h \in Handles |-> IF IsNode(node, rep[h]) THEN node[rep[h]].count ELSE 0]]

Frame(k, h, o, s, n) ==
    [k |-> k, h |-> h, o |-> o, s |-> s, n |-> n, m |-> 0, pc |-> "call",
     locked |-> FALSE, new_node |-> NULL, cnt |-> 0, ptr |-> NULL, ptr2 |-> NULL,
     res |-> << >>, pre |-> NoPre]

Running(t) == stack[t] # << >>
Top(t) == stack[t][Len(stack[t])]
At(t, p) == Running(t) /\ Top(t).pc = p

SetTop(t, f) == [stack EXCEPT ![t] = [@ EXCEPT ![Len(@)] = f]]
Goto(t, p) == SetTop(t, [Top(t) EXCEPT !.pc = p])
Push(st, t, f) == [st EXCEPT ![t] = Append(@, f)]
Pop(t) == [stack EXCEPT ![t] = SubSeq(@, 1, Len(@) - 1)]

\* ---------------------------------------------------------------- the lock

\* mutex_sem: free, or held (any number of times) by one thread.
CanGrab(t) == \A u \in Threads \ {t} : holds[u] = 0

\* mutex_sem::grabber lock( string_lock ): blocks until the lock can be taken.
Grab(t) ==
    /\ CanGrab(t)
    /\ holds' = [holds EXCEPT ![t] = @ + 1]

\* ~grabber: gives back the hold this frame's grabber took.
Ungrab(t) == holds' = [holds EXCEPT ![t] = IF Top(t).locked THEN @ - 1 ELSE @]

LockFree == \A t \in Threads : holds[t] = 0

\* The frame f once its grabber holds the lock, about to run statement group p.
Locked(f, p) == [f EXCEPT !.pc = p, !.locked = TRUE, !.pre = Snapshot]

\* ----------------------------------------------------------- observation

\* The methods whose result is followed from call to return.
Tracked == {"length", "eq", "right", "plus"}

Operand(rp, nd, h) == IF h \in Handles THEN Text(nd, rp[h]) ELSE << >>

\* The history kept for the properties: the operand values a tracked call has
\* found at each of its own steps so far, and (acc) the method that touched a
\* shared rep, count or workspace in this step, recorded when it did so without
\* holding the lock.
Observe(t, acc) ==
    /\ hist' = [hist EXCEPT ![t] =
                  IF stack'[t] # << >> /\ stack'[t][1].k \in Tracked
                  THEN (IF Running(t) THEN @ ELSE {})
                       \cup {<<Operand(rep', node', stack'[t][1].h),
                               Operand(rep', node', stack'[t][1].o)>>}
                  ELSE {}]
    /\ unlockedAcc' = IF holds'[t] = 0 THEN acc ELSE {}
    /\ ip' = [ip EXCEPT ![t] = IF ~Running(t) /\ @ < Len(prog.calls[t]) THEN @ + 1 ELSE @]
    /\ UNCHANGED prog

\* ------------------------------------------------------------ constructors

\* rep = new string_node; rep->workspace = new char[strlen( w ) + 1], holding w.
Construct(t, h, w, st) ==
    /\ LET n == NewNodeId(node) IN
         Store([rep EXCEPT ![h] = n], [node EXCEPT ![n] = NewNode(w, Len(w) + 1, Tag(t, Len(st[t])))], st)
    /\ live' = [live EXCEPT ![h] = TRUE]

\* RexxString::RexxString( )
Enter_ctor_default(t, st, f) ==
    /\ UNCHANGED <<holds, ub>>
    /\ Construct(t, f.h, << >>, Push(st, t, [f EXCEPT !.pc = "return"]))
    /\ Observe(t, {})

\* RexxString::RexxString( const char *existing )
Enter_ctor_cstr(t, st, f) ==
    /\ UNCHANGED <<holds, ub>>
    /\ Construct(t, f.h, f.s, Push(st, t, [f EXCEPT !.pc = "return"]))
    /\ Observe(t, {})

\* RexxString::RexxString( char existing )
Enter_ctor_char(t, st, f) ==
    /\ UNCHANGED <<holds, ub>>
    /\ Construct(t, f.h, <<f.s[1]>>, Push(st, t, [f EXCEPT !.pc = "return"]))
    /\ Observe(t, {})

\* A copy constructor that forgets rep->count++.
Enter_ctor_copy_nocount(t, st, f) ==
    /\ Grab(t)
    /\ Store([rep EXCEPT ![f.h] = rep[f.o]], node, Push(st, t, Locked(f, "return")))
    /\ live' = [live EXCEPT ![f.h] = TRUE]
    /\ UNCHANGED ub
    /\ Observe(t, {f.k})

\* A copy constructor that makes its own copy of the characters.
Enter_ctor_copy_deep(t, st, f) ==
    /\ Grab(t)
    /\ Construct(t, f.h, Text(node, rep[f.o]), Push(st, t, Locked(f, "return")))
    /\ UNCHANGED ub
    /\ Observe(t, {f.k})

\* A copy constructor without its grabber.
Enter_ctor_copy_nolock(t, st, f) ==
    /\ UNCHANGED holds
    /\ Store([rep EXCEPT ![f.h] = rep[f.o]], AcquireNode(node, rep[f.o]),
             Push(st, t, [Locked(f, "return") EXCEPT !.locked = FALSE]))
    /\ live' = [live EXCEPT ![f.h] = TRUE]
    /\ ub' = ub \cup Bad(~IsNode(node, rep[f.o]), "freed")
    /\ Observe(t, {f.k})

\* RexxString::RexxString( const RexxString &existing ):
\* grabber; rep = existing.rep; rep->count++;
Enter_ctor_copy(t, st, f) ==
    /\ Grab(t)
    /\ Store([rep EXCEPT ![f.h] = rep[f.o]], AcquireNode(node, rep[f.o]),
             Push(st, t, Locked(f, "return")))
    /\ live' = [live EXCEPT ![f.h] = TRUE]
    /\ ub' = ub \cup Bad(~IsNode(node, rep[f.o]), "freed")
    /\ Observe(t, {f.k})

\* -------------------------------------------------------------- destructor

\* A destructor without its grabber.
Enter_dtor_nolock(t, st, f) ==
    /\ UNCHANGED holds
    /\ stack' = Push(st, t, [Locked(f, "dtor_release") EXCEPT
                               !.locked = FALSE,
                               !.cnt = IF IsNode(node, rep[f.h]) THEN node[rep[f.h]].count ELSE 0])
    /\ ub' = ub \cup Bad(~IsNode(node, rep[f.h]), "freed")
    /\ UNCHANGED <<live, rep, node>>
    /\ Observe(t, {f.k})

\* RexxString::~RexxString( ): grabber; rep->count is read.
Enter_dtor(t, st, f) ==
    /\ Grab(t)
    /\ stack' = Push(st, t, [Locked(f, "dtor_release") EXCEPT
                               !.cnt = IF IsNode(node, rep[f.h]) THEN node[rep[f.h]].count ELSE 0])
    /\ ub' = ub \cup Bad(~IsNode(node, rep[f.h]), "freed")
    /\ UNCHANGED <<live, rep, node>>
    /\ Observe(t, {f.k})

\* A destructor that deletes the string_node whatever its count.
dtor_release_delete(t) ==
    /\ At(t, "dtor_release")
    /\ UNCHANGED holds
    /\ LET n == rep[Top(t).h]
           nd == IF ~IsNode(node, n) THEN node ELSE [node EXCEPT ![n] = FreeNode]
       IN Store([rep EXCEPT ![Top(t).h] = NULL], nd, Goto(t, "return"))
    /\ ub' = ub \cup Bad(~IsNode(node, rep[Top(t).h]), "freed")
    /\ live' = [live EXCEPT ![Top(t).h] = FALSE]
    /\ Observe(t, {Top(t).k})

\* if( rep->count > 1 ) rep->count--; else { delete [] rep->workspace; delete rep; }
dtor_release(t) ==
    /\ At(t, "dtor_release")
    /\ UNCHANGED holds
    /\ LET n == rep[Top(t).h]
           nd == IF ~IsNode(node, n) THEN node
                 ELSE IF Top(t).cnt > 1 THEN [node EXCEPT ![n].count = @ - 1]
                 ELSE [node EXCEPT ![n] = FreeNode]
       IN Store([rep EXCEPT ![Top(t).h] = NULL], nd, Goto(t, "return"))
    /\ ub' = ub \cup Bad(~IsNode(node, rep[Top(t).h]), "freed")
    /\ live' = [live EXCEPT ![Top(t).h] = FALSE]
    /\ Observe(t, {Top(t).k})

\* -------------------------------------------------------------- assignment

\* A copy assignment without the test for self assignment.
Enter_assign_noselfcheck(t, st, f) ==
    /\ Grab(t)
    /\ LET nd == ReleaseNode(node, rep[f.h]) IN
         /\ Store([rep EXCEPT ![f.h] = rep[f.o]], AcquireNode(nd, rep[f.o]),
                  Push(st, t, Locked(f, "return")))
         /\ ub' = ub \cup Bad(~IsNode(node, rep[f.h]) \/ ~IsNode(nd, rep[f.o]), "freed")
    /\ UNCHANGED live
    /\ Observe(t, {f.k})

\* A copy assignment that does not release the representation it had.
Enter_assign_keepold(t, st, f) ==
    \/ /\ f.o = f.h
       /\ stack' = Push(st, t, [f EXCEPT !.pc = "return"])
       /\ UNCHANGED <<live, rep, node, holds, ub>>
       /\ Observe(t, {})
    \/ /\ f.o # f.h
       /\ Grab(t)
       /\ Store([rep EXCEPT ![f.h] = rep[f.o]], AcquireNode(node, rep[f.o]),
                Push(st, t, Locked(f, "return")))
       /\ ub' = ub \cup Bad(~IsNode(node, rep[f.o]), "freed")
       /\ UNCHANGED live
       /\ Observe(t, {f.k})

\* RexxString::operator=( const RexxString &other ):
\* if( this == &other ) return *this; grabber; the old representation is
\* released; rep = other.rep; rep->count++;
Enter_assign(t, st, f) ==
    \/ /\ f.o = f.h
       /\ stack' = Push(st, t, [f EXCEPT !.pc = "return"])
       /\ UNCHANGED <<live, rep, node, holds, ub>>
       /\ Observe(t, {})
    \/ /\ f.o # f.h
       /\ Grab(t)
       /\ LET nd == ReleaseNode(node, rep[f.h]) IN
            /\ Store([rep EXCEPT ![f.h] = rep[f.o]], AcquireNode(nd, rep[f.o]),
                     Push(st, t, Locked(f, "return")))
            /\ ub' = ub \cup Bad(~IsNode(node, rep[f.h]) \/ ~IsNode(nd, rep[f.o]), "freed")
       /\ UNCHANGED live
       /\ Observe(t, {f.k})

\* An operator=( const char * ) that takes a null pointer for an empty
\* C-string.
Enter_assign_cstr_empty(t, st, f) ==
    /\ UNCHANGED <<live, holds, ub>>
    /\ LET n == NewNodeId(node)
           w == IF f.s = NullCStr THEN << >> ELSE f.s
       IN  Store(rep, [node EXCEPT ![n] = NewNode(w, Len(w) + 1, Tag(t, Len(st[t]) + 1))],
                 Push(st, t, [f EXCEPT !.pc = "assign_cstr", !.new_node = n]))
    /\ Observe(t, {})

\* RexxString::operator=( const char *other ): if( other == nullptr ) return *this;
\* new_node( new string_node ); new_node->workspace holds a copy of other.
Enter_assign_cstr(t, st, f) ==
    \/ /\ f.s = NullCStr
       /\ stack' = Push(st, t, [f EXCEPT !.pc = "return"])
       /\ UNCHANGED <<live, rep, node, holds, ub>>
       /\ Observe(t, {})
    \/ /\ f.s # NullCStr
       /\ UNCHANGED <<live, holds, ub>>
       /\ LET n == NewNodeId(node) IN
            Store(rep, [node EXCEPT ![n] = NewNode(f.s, Len(f.s) + 1, Tag(t, Len(st[t]) + 1))],
                  Push(st, t, [f EXCEPT !.pc = "assign_cstr", !.new_node = n]))
       /\ Observe(t, {})

\* The frame f once rep = new_node.release( ) has run, about to run p.
Adopted(f, p) == [f EXCEPT !.pc = p, !.new_node = NULL]

\* grabber; the old representation is released; rep = new_node.release( );
assign_cstr(t) ==
    /\ At(t, "assign_cstr")
    /\ Grab(t)
    /\ Store([rep EXCEPT ![Top(t).h] = Top(t).new_node], ReleaseNode(node, rep[Top(t).h]),
             SetTop(t, Adopted(Locked(Top(t), "return"), "return")))
    /\ ub' = ub \cup Bad(~IsNode(node, rep[Top(t).h]), "freed")
    /\ UNCHANGED live
    /\ Observe(t, {Top(t).k})

\* ------------------------------------------------------------------ length

\* A length( ) without its grabber.
Enter_length_nolock(t, st, f) ==
    /\ UNCHANGED holds
    /\ stack' = Push(st, t, [Locked(f, "length_strlen") EXCEPT !.locked = FALSE, !.ptr = rep[f.h]])
    /\ UNCHANGED <<live, rep, node, ub>>
    /\ Observe(t, {f.k})

\* RexxString::length( ): grabber; rep is read.
Enter_length(t, st, f) ==
    /\ Grab(t)
    /\ stack' = Push(st, t, [Locked(f, "length_strlen") EXCEPT !.ptr = rep[f.h]])
    /\ UNCHANGED <<live, rep, node, ub>>
    /\ Observe(t, {f.k})

\* return strlen( rep->workspace );
length_strlen(t) ==
    /\ At(t, "length_strlen")
    /\ \E r \in (IF IsNode(node, Top(t).ptr) THEN {Len(Text(node, Top(t).ptr))} ELSE 0 .. MaxLen) :
         stack' = SetTop(t, [Top(t) EXCEPT !.pc = "return", !.res = r])
    /\ ub' = ub \cup Bad(~IsNode(node, Top(t).ptr), "freed")
    /\ UNCHANGED <<live, rep, node, holds>>
    /\ Observe(t, {Top(t).k})

\* -------------------------------------------------------------- operator==

\* operator==( left, right ): grabber; left.rep and right.rep are read.
Enter_eq(t, st, f) ==
    /\ Grab(t)
    /\ stack' = Push(st, t, [Locked(f, "eq_strcmp") EXCEPT !.ptr = rep[f.h], !.ptr2 = rep[f.o]])
    /\ UNCHANGED <<live, rep, node, ub>>
    /\ Observe(t, {f.k})

\* if( left.rep == right.rep ) return true;
\* return ( strcmp( left.rep->workspace, right.rep->workspace ) == 0 );
eq_strcmp(t) ==
    /\ At(t, "eq_strcmp")
    /\ LET p == Top(t).ptr
           q == Top(t).ptr2
           ok == IsNode(node, p) /\ IsNode(node, q)
       IN /\ \E r \in (IF ok THEN {p = q \/ Text(node, p) = Text(node, q)} ELSE BOOLEAN) :
               stack' = SetTop(t, [Top(t) EXCEPT !.pc = "return", !.res = r])
          /\ ub' = ub \cup Bad(~ok, "freed")
    /\ UNCHANGED <<live, rep, node, holds>>
    /\ Observe(t, {Top(t).k})

\* ------------------------------------------- the other relational operators

\* The value of character ch as an unsigned char, 0 for the null character.
Byte(ch) ==
    CASE ch = "NUL" -> 0
      [] ch = " " -> 32
      [] ch = "A" -> 65
      [] ch = "a" -> 97
      [] ch = "x" -> 120

\* strcmp( a, b ): the difference of the first two bytes that differ, the
\* null characters that end a and b included; 0 when there are none.
strcmp(a, b) ==
    LET differ == {i \in 1 .. (IF Len(a) < Len(b) THEN Len(a) ELSE Len(b)) + 1 :
                     (IF i <= Len(a) THEN a[i] ELSE "NUL") # (IF i <= Len(b) THEN b[i] ELSE "NUL")}
        first == CHOOSE i \in differ : \A j \in differ : i <= j
    IN  IF differ = {} THEN 0
        ELSE Byte(IF first <= Len(a) THEN a[first] ELSE "NUL")
                - Byte(IF first <= Len(b) THEN b[first] ELSE "NUL")

\* operator==( left, right ), left.rep being p and right.rep q.
operator_eq(nd, p, q) == p = q \/ strcmp(Text(nd, p), Text(nd, q)) = 0

\* operator<( left, right ).
operator_lt(nd, p, q) == p # q /\ strcmp(Text(nd, p), Text(nd, q)) < 0

\* operator!=: return !( left == right );
operator_ne(nd, p, q) == ~operator_eq(nd, p, q)

\* operator>=: return !( left < right );
operator_ge(nd, p, q) == ~operator_lt(nd, p, q)

\* An operator> that is the opposite of operator<.
operator_gt_not(nd, p, q) == ~operator_lt(nd, p, q)

\* operator>: return right < left;
operator_gt(nd, p, q) == operator_lt(nd, q, p)

\* operator<=: return right >= left;
operator_le(nd, p, q) == operator_ge(nd, q, p)

\* The relational operators but operator==; the inline ones are the calls of
\* operator== and operator< they are written as.
RelKinds == {"lt", "ne", "ge", "gt", "le"}

\* grabber (of operator== or operator<);
Enter_relational(t, st, f) ==
    /\ Grab(t)
    /\ stack' = Push(st, t, [Locked(f, "relational") EXCEPT !.ptr = rep[f.h], !.ptr2 = rep[f.o]])
    /\ UNCHANGED <<live, rep, node, ub>>
    /\ Observe(t, {f.k})

\* if( left.rep == right.rep ) return ...; return ( strcmp( ... ) ... );
relational(t) ==
    /\ At(t, "relational")
    /\ LET p == Top(t).ptr
           q == Top(t).ptr2
           ok == IsNode(node, p) /\ IsNode(node, q)
           r == CASE Top(t).k = "lt" -> operator_lt(node, p, q)
                  [] Top(t).k = "ne" -> operator_ne(node, p, q)
                  [] Top(t).k = "ge" -> operator_ge(node, p, q)
                  [] Top(t).k = "gt" -> operator_gt(node, p, q)
                  [] Top(t).k = "le" -> operator_le(node, p, q)
       IN /\ \E b \in (IF ok THEN {r} ELSE BOOLEAN) :
               stack' = SetTop(t, [Top(t) EXCEPT !.pc = "return", !.res = b])
          /\ ub' = ub \cup Bad(~ok, "freed")
    /\ UNCHANGED <<live, rep, node, holds>>
    /\ Observe(t, {Top(t).k})

\* ------------------------------------------------------------------ append

\* The string_node whose workspace append reads its argument from: other.rep,
\* or for a `const char *` that points at the workspace of the object f.o
\* (static_cast<const char *>( o )) the string_node o had when the call was
\* made; NULL for any other C-string or a char.
OtherNode(f) ==
    IF f.k = "append_str" THEN rep[f.o]
    ELSE IF f.o = "" THEN NULL
    ELSE IF f.pc = "call" THEN rep[f.o] ELSE f.ptr2

\* The characters append is given: other.rep->workspace, other, or the one char.
OtherText(f) == IF f.k = "append_str" \/ f.o # "" THEN Text(node, OtherNode(f)) ELSE f.s

\* An append that takes no lock while it measures and copies.
Enter_append_nolock(t, st, f) ==
    /\ UNCHANGED holds
    /\ LET n == NewNodeId(node)
           c == Len(Text(node, rep[f.h])) + Len(OtherText(f))
       IN Store(rep, [node EXCEPT ![n] = NewNode(<< >>, c + 1, Tag(t, Len(st[t]) + 1))],
                Push(st, t, [Locked(f, "append_copy") EXCEPT
                               !.locked = FALSE,
                               !.new_node = n, !.cnt = c, !.ptr = rep[f.h],
                               !.ptr2 = OtherNode(f)]))
    /\ ub' = ub \cup Bad(~IsNode(node, rep[f.h]) \/ (OtherNode(f) # NULL /\ ~IsNode(node, OtherNode(f))), "freed")
    /\ UNCHANGED live
    /\ Observe(t, {f.k})

\* RexxString::append (the three overloads): grabber;
\* count = strlen( rep->workspace ) + strlen( other ... );
\* new_node( new string_node ); new_node->workspace = new char[count + 1];
Enter_append(t, st, f) ==
    /\ Grab(t)
    /\ LET n == NewNodeId(node)
           c == Len(Text(node, rep[f.h])) + Len(OtherText(f))
       IN Store(rep, [node EXCEPT ![n] = NewNode(<< >>, c + 1, Tag(t, Len(st[t]) + 1))],
                Push(st, t, [Locked(f, "append_copy") EXCEPT
                               !.new_node = n, !.cnt = c, !.ptr = rep[f.h],
                               !.ptr2 = OtherNode(f)]))
    /\ ub' = ub \cup Bad(~IsNode(node, rep[f.h]) \/ (OtherNode(f) # NULL /\ ~IsNode(node, OtherNode(f))), "freed")
    /\ UNCHANGED live
    /\ Observe(t, {f.k})

\* An append that copies the old characters and leaves out the new ones.
append_copy_nocat(t) ==
    /\ At(t, "append_copy")
    /\ UNCHANGED <<live, rep, holds, ub>>
    /\ node' = [node EXCEPT ![Top(t).new_node].workspace = Text(node, rep[Top(t).h])]
    /\ stack' = Goto(t, "append_swap")
    /\ Observe(t, {Top(t).k})

\* strcpy( new_node->workspace, rep->workspace ); strcat( new_node->workspace, other ... );
append_copy(t) ==
    /\ At(t, "append_copy")
    /\ UNCHANGED <<live, rep, holds>>
    /\ LET f == Top(t)
           w == Text(node, rep[f.h]) \o OtherText(f)
       IN /\ node' = [node EXCEPT ![f.new_node].workspace = w]
          /\ ub' = ub \cup Bad(Len(w) + 1 > node[f.new_node].cap, "overrun")
                       \cup Bad(~IsNode(node, rep[f.h]), "freed")
                       \cup Bad(OtherNode(f) # NULL /\ ~IsNode(node, OtherNode(f)), "freed")
    /\ stack' = Goto(t, "append_swap")
    /\ Observe(t, {Top(t).k})

\* An append that writes the new characters into the buffer it already has.
append_swap_inplace(t) ==
    /\ At(t, "append_swap")
    /\ UNCHANGED <<live, holds, ub>>
    /\ Store(rep, [node EXCEPT ![rep[Top(t).h]].workspace = Text(node, Top(t).new_node),
                               ![rep[Top(t).h]].cap = Top(t).cnt + 1,
                               ![Top(t).new_node] = FreeNode],
             SetTop(t, Adopted(Top(t), "return")))
    /\ Observe(t, {Top(t).k})

\* The old representation is released; rep = new_node.release( );
append_swap(t) ==
    /\ At(t, "append_swap")
    /\ UNCHANGED <<live, holds>>
    /\ Store([rep EXCEPT ![Top(t).h] = Top(t).new_node], ReleaseNode(node, rep[Top(t).h]),
             SetTop(t, Adopted(Top(t), "return")))
    /\ ub' = ub \cup Bad(~IsNode(node, rep[Top(t).h]), "freed")
    /\ Observe(t, {Top(t).k})

\* ----------------------------------------------------------------- erase( )

\* RexxString::erase( ): new_node( new string_node ) with an empty workspace.
Enter_erase(t, st, f) ==
    /\ UNCHANGED <<live, holds, ub>>
    /\ LET n == NewNodeId(node) IN
         Store(rep, [node EXCEPT ![n] = NewNode(<< >>, 1, Tag(t, Len(st[t]) + 1))],
               Push(st, t, [f EXCEPT !.pc = "erase", !.new_node = n]))
    /\ Observe(t, {})

\* An erase( ) that empties the buffer it already has.
erase_inplace(t) ==
    /\ At(t, "erase")
    /\ Grab(t)
    /\ Store(rep, [node EXCEPT ![rep[Top(t).h]].workspace = << >>,
                               ![Top(t).new_node] = FreeNode],
             SetTop(t, Adopted(Locked(Top(t), "return"), "return")))
    /\ UNCHANGED <<live, ub>>
    /\ Observe(t, {Top(t).k})

\* grabber; the old representation is released; rep = new_node.release( );
erase(t) ==
    /\ At(t, "erase")
    /\ Grab(t)
    /\ Store([rep EXCEPT ![Top(t).h] = Top(t).new_node], ReleaseNode(node, rep[Top(t).h]),
             SetTop(t, Adopted(Locked(Top(t), "return"), "return")))
    /\ ub' = ub \cup Bad(~IsNode(node, rep[Top(t).h]), "freed")
    /\ UNCHANGED live
    /\ Observe(t, {Top(t).k})

\* ------------------------------------------------------------------- right

Pad(n, pad) == [i \in 1 .. n |-> pad]

\* A right that keeps the first characters of a longer text.
Right_first(T, length, pad) ==
    IF length < Len(T) THEN SubSeq(T, 1, length) ELSE Pad(length - Len(T), pad) \o T

\* The text right( length, pad ) builds from the text T.
Right(T, length, pad) ==
    IF length < Len(T) THEN SubSeq(T, Len(T) - length + 1, Len(T))
    ELSE Pad(length - Len(T), pad) \o T

\* RexxString::right( length, pad ): grabber; RexxString result;
Enter_right(t, st, f) ==
    /\ Grab(t)
    /\ Construct(t, Tmp(t), << >>, Push(st, t, Locked(f, "right_build")))
    /\ UNCHANGED ub
    /\ Observe(t, {})

\* temp = new char[length + 1], filled from rep->workspace;
\* delete [] result.rep->workspace; result.rep->workspace = temp;
right_build(t) ==
    /\ At(t, "right_build")
    /\ UNCHANGED <<live, rep, holds>>
    /\ LET f == Top(t)
           w == Right(Text(node, rep[f.h]), f.n, f.s[1])
       IN node' = [node EXCEPT ![rep[Tmp(t)]].workspace = w, ![rep[Tmp(t)]].cap = f.n + 1]
    /\ ub' = ub \cup Bad(~IsNode(node, rep[Top(t).h]), "freed")
    /\ stack' = Goto(t, "ret_local")
    /\ Observe(t, {Top(t).k})

\* ------------------------------------------- return result; / return temp;

\* The local `result` / `temp` of the method on top of thread t's stack.
Local(t) == IF Len(stack[t]) <= 1 THEN Tmp(t) ELSE Tmp2(t)

\* The local is built in the returned object itself (copy elision).
ret_nrvo(t) ==
    /\ At(t, "ret_local")
    /\ UNCHANGED <<holds, ub>>
    /\ Store([rep EXCEPT ![Ret(t)] = rep[Local(t)], ![Local(t)] = NULL], node, Goto(t, "return"))
    /\ live' = [live EXCEPT ![Ret(t)] = TRUE, ![Local(t)] = FALSE]
    /\ Observe(t, {})

\* The returned object is copy constructed from the local ...
ret_copy(t) ==
    /\ At(t, "ret_local")
    /\ Enter_ctor_copy(t, Goto(t, "ret_dtor"), Frame("ctor_copy", Ret(t), Local(t), << >>, 0))

\* ... and the local is destroyed.
ret_dtor(t) ==
    /\ At(t, "ret_dtor")
    /\ Enter_dtor(t, Goto(t, "return"), Frame("dtor", Local(t), "", << >>, 0))

\* --------------------------------- the methods that return a new string

\* The local `result` of a method that is called on top of the stack st.
LocalIn(st, t) == IF st[t] = << >> THEN Tmp(t) ELSE Tmp2(t)

\* grabber; RexxString result; then the statement group p.
EnterResult(t, st, f, p) ==
    /\ Grab(t)
    /\ Construct(t, LocalIn(st, t), << >>, Push(st, t, Locked(f, p)))
    /\ UNCHANGED ub
    /\ Observe(t, {})

\* A method that puts its answer into this.
SetResult_this(t, w, c, bad) ==
    /\ UNCHANGED <<live, rep, holds>>
    /\ node' = [node EXCEPT ![rep[Top(t).h]].workspace = w, ![rep[Top(t).h]].cap = c]
    /\ ub' = ub \cup bad
    /\ stack' = Goto(t, "ret_local")
    /\ Observe(t, {Top(t).k})

\* temp = new char[c], filled with the text w;
\* delete [] result.rep->workspace; result.rep->workspace = temp; return result;
SetResult(t, w, c, bad) ==
    /\ UNCHANGED <<live, rep, holds>>
    /\ node' = [node EXCEPT ![rep[Local(t)]].workspace = w, ![rep[Local(t)]].cap = c]
    /\ ub' = ub \cup bad \cup Bad(~IsNode(node, rep[Top(t).h]), "freed")
    /\ stack' = Goto(t, "ret_local")
    /\ Observe(t, {Top(t).k})

\* return result; with result as it was constructed.
ReturnResult(t, bad) ==
    /\ UNCHANGED <<live, rep, node, holds>>
    /\ ub' = ub \cup bad \cup Bad(~IsNode(node, rep[Top(t).h]), "freed")
    /\ stack' = Goto(t, "ret_local")
    /\ Observe(t, {Top(t).k})

\* this->rep->workspace, as the method on top of thread t's stack reads it.
This(t) == Text(node, rep[Top(t).h])

\* -------------------------------------------------------------------- left

\* A left that does not pad.
Left_nopad(T, length, pad) == IF length < Len(T) THEN SubSeq(T, 1, length) ELSE T

\* The text left( length, pad ) builds from the text T.
Left(T, length, pad) ==
    IF length < Len(T) THEN SubSeq(T, 1, length)
    ELSE T \o Pad(length - Len(T), pad)

\* RexxString::left( length, pad ): grabber; RexxString result;
Enter_left(t, st, f) == EnterResult(t, st, f, "left_build")

\* The characters are taken from rep->workspace, cut or padded on the right.
left_build(t) ==
    /\ At(t, "left_build")
    /\ SetResult(t, Left(This(t), Top(t).n, Top(t).s[1]), Top(t).n + 1, {})

\* ------------------------------------------------------------------ center

\* A center that puts the odd pad character on the left.
Center_left(T, length, pad) ==
    LET right_side == (length - Len(T)) \div 2
        left_side == length - Len(T) - right_side
    IN  Pad(left_side, pad) \o T \o Pad(right_side, pad)

\* The text center( length, pad ) builds from a text T shorter than length.
Center(T, length, pad) ==
    LET left_side == (length - Len(T)) \div 2
        right_side == length - Len(T) - left_side
    IN  Pad(left_side, pad) \o T \o Pad(right_side, pad)

\* RexxString::center( length, pad ): grabber; RexxString result;
Enter_center(t, st, f) == EnterResult(t, st, f, "center_build")

\* if( length <= current_length ) return left( length, pad );
center_left(t) ==
    /\ At(t, "center_build")
    /\ Top(t).n <= Len(This(t))
    /\ Enter_left(t, Goto(t, "center_dtor"), Frame("left", Top(t).h, "", Top(t).s, Top(t).n))

\* ... and result is destroyed as center returns what left returned.
center_dtor(t) ==
    /\ At(t, "center_dtor")
    /\ Enter_dtor(t, Goto(t, "return"), Frame("dtor", Tmp(t), "", << >>, 0))

\* else: the text is put between the pad characters.
center_build(t) ==
    /\ At(t, "center_build")
    /\ Top(t).n > Len(This(t))
    /\ SetResult(t, Center(This(t), Top(t).n, Top(t).s[1]), Top(t).n + 1, {})

\* -------------------------------------------------------------------- copy

\* temp[0] = '\0'; for( i = 0; i < count; i++ ) strcat( temp, rep->workspace );
RECURSIVE CopyText(_, _)
CopyText(T, count) == IF count = 0 THEN << >> ELSE CopyText(T, count - 1) \o T

\* RexxString::copy( count ): grabber; RexxString result;
Enter_copy(t, st, f) == EnterResult(t, st, f, "copy_build")

\* A copy that makes one copy, whatever count is.
copy_build_once(t) ==
    /\ At(t, "copy_build")
    /\ SetResult(t, This(t), Len(This(t)) + 1, {})

copy_build(t) ==
    /\ At(t, "copy_build")
    /\ SetResult(t, CopyText(This(t), Top(t).n), Top(t).n * Len(This(t)) + 1, {})

\* ------------------------------------- erase( starting_position, count )

\* std::numeric_limits<std::size_t>::max( ), which 0 - 1 wraps to; here the
\* largest number TLC's integers hold.  It is only compared with lengths.
SIZE_MAX == 2147483647

\* An offset that does not wrap around: position 0 is taken for position 1.
Offset_nowrap(starting_position) == IF starting_position = 0 THEN 0 ELSE starting_position - 1

\* size_t offset = starting_position - 1;
Offset(starting_position) == IF starting_position = 0 THEN SIZE_MAX ELSE starting_position - 1

Min(a, b) == IF a < b THEN a ELSE b

\* if( offset >= current_length || count == 0 ): there is no work to do.
Erase_noop(T, starting_position, count) == Offset(starting_position) >= Len(T) \/ count = 0

\* An erase that takes out one character more than count.
Erase_more(T, starting_position, count) ==
    SubSeq(T, 1, Offset(starting_position))
        \o SubSeq(T, Offset(starting_position) + count + 2, Len(T))

\* An erase that takes out one character, whatever count is.
Erase_one(T, starting_position, count) ==
    SubSeq(T, 1, Offset(starting_position)) \o SubSeq(T, Offset(starting_position) + 2, Len(T))

\* The text erase( starting_position, count ) builds from T when there is work.
Erase(T, starting_position, count) ==
    LET offset == Offset(starting_position)
        cnt == Min(count, Len(T) - offset)
    IN  SubSeq(T, 1, offset) \o SubSeq(T, offset + cnt + 1, Len(T))

\* RexxString::erase( starting_position, count ): grabber; RexxString result;
Enter_erase2(t, st, f) == EnterResult(t, st, f, "erase2_build")

\* A count that is trimmed to one more than the characters there are.
EraseCount_late(T, starting_position, count) ==
    Min(count, Len(T) - Offset(starting_position) + 1)

\* size_t max_count = current_length - offset; if( count > max_count ) count = max_count;
EraseCount(T, starting_position, count) == Min(count, Len(T) - Offset(starting_position))

\* The larger of two numbers.
Max(a, b) == IF a > b THEN a ELSE b

\* new char[current_length - count + 1]; memcpy( temp, rep->workspace, offset );
\* strcpy( &temp[offset], &rep->workspace[offset + count] ), which copies up
\* to the first null character it finds.
erase_access(T, starting_position, count) ==
    LET offset == Offset(starting_position)
        from == offset + EraseCount(T, starting_position, count)
        copied == Max(Len(T), from) - from + 1
    IN  [alloc |-> Len(T) - EraseCount(T, starting_position, count) + 1,
         reads |-> (0 .. offset - 1) \cup (from .. from + copied - 1),
         others |-> {},
         writes |-> 0 .. offset + copied - 1]

\* { result = *this; return result; }
erase2_noop(t) ==
    /\ At(t, "erase2_build")
    /\ Erase_noop(This(t), Top(t).n, Top(t).m)
    /\ Enter_assign(t, Goto(t, "ret_local"), Frame("assign", Local(t), Top(t).h, << >>, 0))

erase2_build(t) ==
    /\ At(t, "erase2_build")
    /\ ~Erase_noop(This(t), Top(t).n, Top(t).m)
    /\ \E w \in {Erase(This(t), Top(t).n, Top(t).m)} :
         \E acc \in {erase_access(This(t), Top(t).n, Top(t).m)} :
            SetResult(t, w, acc.alloc, Trap(acc, Len(This(t)), 0))

\* ------------------------------------------------------------------ insert

\* if( offset > current_length || count == 0 ): there is no work to do.
Insert_noop(T, starting_position, count) == Offset(starting_position) > Len(T) \/ count = 0

\* An insert that puts all of the incoming text in, whatever count is.
Insert_all(T, I, starting_position, count) ==
    SubSeq(T, 1, Offset(starting_position)) \o I \o SubSeq(T, Offset(starting_position) + 1, Len(T))

\* The text insert( incoming, starting_position, count ) builds from T and
\* the incoming text I when there is work.
Insert(T, I, starting_position, count) ==
    LET offset == Offset(starting_position)
        cnt == Min(count, Len(I))
    IN  SubSeq(T, 1, offset) \o SubSeq(I, 1, cnt) \o SubSeq(T, offset + 1, Len(T))

\* RexxString::insert( incoming, starting_position, count ): grabber; RexxString result;
Enter_insert(t, st, f) == EnterResult(t, st, f, "insert_build")

\* if( count > incoming_length ) count = incoming_length;
\* new char[current_length + count + 1]; memcpy( temp, rep->workspace, offset );
\* memcpy( &temp[offset], incoming.rep->workspace, count );
\* strcpy( &temp[offset + count], &rep->workspace[offset] );
insert_access(T, I, starting_position, count) ==
    LET offset == Offset(starting_position)
        trimmed == Min(count, Len(I))
    IN  [alloc |-> Len(T) + trimmed + 1,
         reads |-> 0 .. Max(Len(T), offset),
         others |-> 0 .. trimmed - 1,
         writes |-> 0 .. offset + trimmed + Max(Len(T), offset) - offset]

\* { result = *this; return result; }
insert_noop(t) ==
    /\ At(t, "insert_build")
    /\ Insert_noop(This(t), Top(t).n, Top(t).m)
    /\ Enter_assign(t, Goto(t, "ret_local"), Frame("assign", Local(t), Top(t).h, << >>, 0))

insert_build(t) ==
    /\ At(t, "insert_build")
    /\ ~Insert_noop(This(t), Top(t).n, Top(t).m)
    /\ \E w \in {Insert(This(t), Text(node, rep[Top(t).o]), Top(t).n, Top(t).m)} :
         \E acc \in {insert_access(This(t), Text(node, rep[Top(t).o]), Top(t).n, Top(t).m)} :
            SetResult(t, w, acc.alloc,
                      Bad(~IsNode(node, rep[Top(t).o]), "freed")
                          \cup Trap(acc, Len(This(t)), Len(Text(node, rep[Top(t).o]))))

\* ------------------------------------------------------------------- strip

\* start: moved past the leading kill_chars in modes 'L' and 'B'.
StripStart(T, mode, kill_char) ==
    IF mode \in {"L", "B"} /\ \E i \in 1 .. Len(T) : T[i] # kill_char
    THEN CHOOSE i \in 1 .. Len(T) : T[i] # kill_char /\ \A j \in 1 .. i - 1 : T[j] = kill_char
    ELSE IF mode \in {"L", "B"} THEN Len(T) + 1 ELSE 1

\* end: backed up over the trailing kill_chars in modes 'T' and 'B'; 0 is
\* the place before the first character.
StripEnd(T, mode, kill_char) ==
    IF mode \in {"T", "B"} /\ \E i \in 1 .. Len(T) : T[i] # kill_char
    THEN CHOOSE i \in 1 .. Len(T) : T[i] # kill_char /\ \A j \in i + 1 .. Len(T) : T[j] = kill_char
    ELSE IF mode \in {"T", "B"} THEN 0 ELSE Len(T)

\* A strip that removes the leading kill_chars in every mode.
Strip_leading(T, mode, kill_char) ==
    IF T = << >> \/ StripStart(T, "L", kill_char) > Len(T) THEN << >>
    ELSE SubSeq(T, StripStart(T, "L", kill_char), Len(T))

\* The text strip( mode, kill_char ) returns for T.
Strip(T, mode, kill_char) ==
    IF T = << >> \/ StripStart(T, mode, kill_char) > StripEnd(T, mode, kill_char) THEN << >>
    ELSE SubSeq(T, StripStart(T, mode, kill_char), StripEnd(T, mode, kill_char))

\* strchr( rep->workspace, '\0' ); the loop of start reads up to the
\* character it stops at, the loop of end down to the character it stops at
\* and never before rep->workspace; new char[length + 1];
\* memcpy( temp, start, length ); temp[length] = '\0';
strip_access(T, mode, kill_char) ==
    LET start == StripStart(T, mode, kill_char) - 1
        end == StripEnd(T, mode, kill_char) - 1
    IN  [alloc |-> IF T = << >> \/ start > end THEN 1 ELSE end - start + 2,
         reads |-> (0 .. Len(T))
                      \cup (IF T # << >> /\ mode \in {"L", "B"} THEN 0 .. start ELSE {})
                      \cup (IF T # << >> /\ mode \in {"T", "B"} THEN Max(end, 0) .. Len(T) - 1 ELSE {})
                      \cup (IF T # << >> THEN start .. end ELSE {}),
         others |-> {},
         writes |-> IF T = << >> \/ start > end THEN {} ELSE 0 .. end - start + 1]

\* RexxString::strip( mode, kill_char ): grabber; RexxString result;
Enter_strip(t, st, f) == EnterResult(t, st, f, "strip_build")

\* A text of kill_chars only takes end to before rep->workspace, which the
\* comparison end >= rep->workspace then finds; the loop ends there in every
\* build, without reading.
strip_build(t) ==
    /\ At(t, "strip_build")
    /\ \E w \in {Strip(This(t), Top(t).s[1], Top(t).s[2])} :
         \E acc \in {strip_access(This(t), Top(t).s[1], Top(t).s[2])} :
            \E bad \in {Bad(This(t) # << >> /\ StripEnd(This(t), Top(t).s[1], Top(t).s[2]) = 0, "before")
                            \cup Trap(acc, Len(This(t)), 0)} :
               IF w = << >> THEN ReturnResult(t, bad) ELSE SetResult(t, w, acc.alloc, bad)

\* ------------------------------------------------------------------ substr

\* A substr that takes starting_position for an offset.
Substr_offset(T, starting_position, count) ==
    IF starting_position >= Len(T) THEN << >>
    ELSE SubSeq(T, starting_position + 1,
                starting_position + Min(count, Len(T) - starting_position))

\* The text substr( starting_position, count ) returns for T.
Substr(T, starting_position, count) ==
    LET offset == Offset(starting_position)
    IN  IF offset >= Len(T) THEN << >>
        ELSE SubSeq(T, offset + 1, offset + Min(count, Len(T) - offset))

\* if( count > current_length - offset ) count = current_length - offset;
\* new char[count + 1]; memcpy( temp, &rep->workspace[offset], count );
\* temp[count] = '\0';
substr_access(T, starting_position, count) ==
    LET offset == Offset(starting_position)
        trimmed == Min(count, Len(T) - offset)
    IN  [alloc |-> trimmed + 1,
         reads |-> offset .. offset + trimmed - 1,
         others |-> {},
         writes |-> 0 .. trimmed]

\* RexxString::substr( starting_position, count ): grabber; RexxString result;
Enter_substr(t, st, f) == EnterResult(t, st, f, "substr_build")

substr_build(t) ==
    /\ At(t, "substr_build")
    /\ IF Offset(Top(t).n) >= Len(This(t)) THEN ReturnResult(t, {})
       ELSE \E w \in {Substr(This(t), Top(t).n, Top(t).m)} :
              \E acc \in {substr_access(This(t), Top(t).n, Top(t).m)} :
                 SetResult(t, w, acc.alloc, Trap(acc, Len(This(t)), 0))

\* ---------------------------------------------------- words and subword

\* The null character that ends the characters of a workspace.
NUL == "NUL"

\* The character the pointer workspace + ( i - 1 ) points at.
CharAt(T, i) == IF i <= Len(T) THEN T[i] ELSE NUL

\* const char *white = 0: no delimiter string is given.
nullptr == <<"nullptr">>

\* is_white( ch, white ): strchr( white, ch ) finds the null character too.
is_white(ch, white) ==
    IF white # nullptr THEN ch = NUL \/ \E i \in 1 .. Len(white) : white[i] = ch
    ELSE ch \in {" ", "\t", "\n", "\r", "\f", "VT"}

\* for( p = rep->workspace; *p; p++ ): the words that start at or after
\* character i, in_word telling if character i - 1 is in a word.
RECURSIVE WordScan(_, _, _, _)
WordScan(T, white, i, in_word) ==
    IF i > Len(T) THEN 0
    ELSE (IF ~is_white(T[i], white) /\ ~in_word THEN 1 ELSE 0)
            + WordScan(T, white, i + 1, ~is_white(T[i], white))

\* A words that counts characters.
Words_chars(T, white) == Len(T)

\* A words that counts the characters that are not delimiters.
Words_nonwhite(T, white) == Cardinality({i \in 1 .. Len(T) : ~is_white(T[i], white)})

\* The number words( white ) returns for T.
Words(T, white) == WordScan(T, white, 1, FALSE)

\* while( is_white( *start, white ) ) start++;
RECURSIVE SkipWhite(_, _, _)
SkipWhite(T, white, i) ==
    IF i <= Len(T) + 1 /\ is_white(CharAt(T, i), white) THEN SkipWhite(T, white, i + 1) ELSE i

\* while( !is_white( *start, white ) ) start++;
RECURSIVE SkipWord(_, _, _)
SkipWord(T, white, i) ==
    IF i <= Len(T) + 1 /\ ~is_white(CharAt(T, i), white) THEN SkipWord(T, white, i + 1) ELSE i

\* while( !( is_white( *end, white ) || *end == '\0' ) ) end++;
RECURSIVE SkipToEnd(_, _, _)
SkipToEnd(T, white, i) ==
    IF i <= Len(T) /\ ~is_white(CharAt(T, i), white) THEN SkipToEnd(T, white, i + 1) ELSE i

\* Find the beginning of the offset-th word.
RECURSIVE WordStart(_, _, _, _)
WordStart(T, white, i, offset) ==
    IF offset = 0 \/ i > Len(T) + 1 THEN SkipWhite(T, white, i)
    ELSE WordStart(T, white, SkipWord(T, white, SkipWhite(T, white, i)), offset - 1)

\* Now find the end of the count-th word from start.
RECURSIVE WordEnd(_, _, _, _)
WordEnd(T, white, i, count) ==
    IF count <= 1 \/ i > Len(T) + 1 THEN SkipToEnd(T, white, i)
    ELSE WordEnd(T, white, SkipWhite(T, white, SkipToEnd(T, white, i)), count - 1)

\* subword returns an empty string: the offset is off the end, or count is 0.
Subword_empty(T, starting_position, count, white) ==
    \/ Offset(starting_position) >= Words(T, white)
    \/ Min(count, Words(T, white) - Offset(starting_position)) = 0

\* start and end, as places in the workspace, when subword has work to do.
SubwordStart(T, starting_position, white) == WordStart(T, white, 1, Offset(starting_position))

SubwordEnd(T, starting_position, count, white) ==
    WordEnd(T, white, SubwordStart(T, starting_position, white),
            Min(count, Words(T, white) - Offset(starting_position)))

\* A subword that returns one word whatever the count.
Subword_one(T, starting_position, count, white) ==
    IF Subword_empty(T, starting_position, count, white) THEN << >>
    ELSE SubSeq(T, SubwordStart(T, starting_position, white),
                SubwordEnd(T, starting_position, 1, white) - 1)

\* The text subword( starting_position, count, white ) returns for T.
Subword(T, starting_position, count, white) ==
    IF Subword_empty(T, starting_position, count, white) THEN << >>
    ELSE SubSeq(T, SubwordStart(T, starting_position, white),
                SubwordEnd(T, starting_position, count, white) - 1)

\* The method returns the number r.
Answer(t, r, bad) ==
    /\ stack' = SetTop(t, [Top(t) EXCEPT !.pc = "return", !.res = r])
    /\ ub' = ub \cup bad \cup Bad(~IsNode(node, rep[Top(t).h]), "freed")
    /\ UNCHANGED <<live, rep, node, holds>>
    /\ Observe(t, {Top(t).k})

\* A words that takes no lock.
Enter_words_nolock(t, st, f) ==
    /\ UNCHANGED holds
    /\ stack' = Push(st, t, [Locked(f, "words_scan") EXCEPT !.locked = FALSE])
    /\ UNCHANGED <<live, rep, node, ub>>
    /\ Observe(t, {})

\* RexxString::words( white ): grabber;
Enter_words(t, st, f) ==
    /\ Grab(t)
    /\ stack' = Push(st, t, Locked(f, "words_scan"))
    /\ UNCHANGED <<live, rep, node, ub>>
    /\ Observe(t, {})

words_scan(t) ==
    /\ At(t, "words_scan")
    /\ Answer(t, Words(This(t), Top(t).s), {})

\* The loops read *start and *end from rep->workspace up to the place
\* end stops at; ptrdiff_t length = end - start; new char[length + 1];
\* memcpy( temp, start, length ); temp[length] = '\0';
subword_access(T, starting_position, count, white) ==
    LET start == SubwordStart(T, starting_position, white) - 1
        end == SubwordEnd(T, starting_position, count, white) - 1
    IN  [alloc |-> end - start + 1,
         reads |-> 0 .. end,
         others |-> {},
         writes |-> 0 .. end - start]

\* RexxString::subword( starting_position, count, white ): grabber;
\* RexxString result;  word( starting_position, white ) is subword with count 1.
Enter_subword(t, st, f) == EnterResult(t, st, f, "subword_words")

\* size_t current_length = words( white );
subword_words(t) ==
    /\ At(t, "subword_words")
    /\ Enter_words(t, Goto(t, "subword_build"), Frame("words", Top(t).h, "", Top(t).s, 0))

subword_build(t) ==
    /\ At(t, "subword_build")
    /\ IF Subword_empty(This(t), Top(t).n, Top(t).m, Top(t).s) THEN ReturnResult(t, {})
       ELSE \E w \in {Subword(This(t), Top(t).n, Top(t).m, Top(t).s)} :
              \E acc \in {subword_access(This(t), Top(t).n, Top(t).m, Top(t).s)} :
                 SetResult(t, w, acc.alloc,
                           Bad(SubwordEnd(This(t), Top(t).n, Top(t).m, Top(t).s) > Len(This(t)) + 1,
                               "overrun")
                               \cup Trap(acc, Len(This(t)), 0))

\* -------------------------------------------------------- pos and last_pos

\* The greatest number of a set of numbers.
Greatest(S) == CHOOSE p \in S : \A q \in S : q <= p

\* The places from offset on where strchr or strstr finds needle in T, the
\* null character that ends T being a character strchr can find; an empty
\* needle is found where the search starts.
Found(T, needle, offset) ==
    {p \in offset + 1 .. Len(T) + 1 : \A i \in 1 .. Len(needle) : CharAt(T, p + i - 1) = needle[i]}

\* The number pos( needle, starting_position ) returns for T, needle a
\* character or a C-string.
Pos(T, needle, starting_position) ==
    IF Offset(starting_position) > Len(T) \/ Found(T, needle, Offset(starting_position)) = {}
    THEN 0
    ELSE Least(Found(T, needle, Offset(starting_position)))

\* strchr and strstr read from rep->workspace + offset up to the end of
\* the needle they find, or up to the null character.
pos_access(T, needle, starting_position) ==
    LET r == Pos(T, needle, starting_position)
    IN  [alloc |-> 0,
         reads |-> IF Offset(starting_position) > Len(T) THEN {}
                   ELSE Offset(starting_position) .. (IF r = 0 THEN Len(T) ELSE r - 1 + Max(Len(needle), 1) - 1),
         others |-> {},
         writes |-> {}]

\* RexxString::pos( needle, starting_position ), both overloads: grabber;
Enter_pos(t, st, f) ==
    /\ Grab(t)
    /\ stack' = Push(st, t, Locked(f, "pos_scan"))
    /\ UNCHANGED <<live, rep, node, ub>>
    /\ Observe(t, {})

pos_scan(t) ==
    /\ At(t, "pos_scan")
    /\ Answer(t, Pos(This(t), Top(t).s, Top(t).n),
              Trap(pos_access(This(t), Top(t).s, Top(t).n), Len(This(t)), 0))

\* The places at or before starting_position where T has the character
\* needle; a search that starts at or beyond the end looks at the null
\* character that ends T first.
FoundBack(T, needle, starting_position) ==
    {p \in 1 .. Min(Offset(starting_position), Len(T)) + 1 : CharAt(T, p) = needle}

\* The number last_pos( needle, starting_position ) returns for T.
LastPos(T, needle, starting_position) ==
    IF FoundBack(T, needle, starting_position) = {} THEN 0
    ELSE Greatest(FoundBack(T, needle, starting_position))

\* *p is read from rep->workspace + offset, offset at most current_length,
\* down to the needle, or down to rep->workspace.
last_pos_access(T, needle, starting_position) ==
    LET r == LastPos(T, needle, starting_position)
    IN  [alloc |-> 0,
         reads |-> (IF r = 0 THEN 0 ELSE r - 1) .. Min(Offset(starting_position), Len(T)),
         others |-> {},
         writes |-> {}]

\* RexxString::last_pos( needle, starting_position ): grabber;
Enter_last_pos(t, st, f) ==
    /\ Grab(t)
    /\ stack' = Push(st, t, Locked(f, "last_pos_scan"))
    /\ UNCHANGED <<live, rep, node, ub>>
    /\ Observe(t, {})

\* A needle that is not found takes p to before rep->workspace, which the
\* comparison p >= rep->workspace then finds; the loop ends there in every build.
last_pos_scan(t) ==
    /\ At(t, "last_pos_scan")
    /\ \E r \in {LastPos(This(t), Top(t).s[1], Top(t).n)} :
         Answer(t, r, Bad(r = 0, "before")
                         \cup Trap(last_pos_access(This(t), Top(t).s[1], Top(t).n), Len(This(t)), 0))

\* ------------------------------------------------ operator const char *( )

\* return rep->workspace; (no grabber)
Enter_conv(t, st, f) ==
    /\ stack' = Push(st, t, [f EXCEPT !.pc = "conv_use", !.ptr = rep[f.h]])
    /\ UNCHANGED <<live, rep, node, holds, ub>>
    /\ Observe(t, {f.k})

\* The caller reads the characters the returned pointer points to.
conv_use(t) ==
    /\ At(t, "conv_use")
    /\ \E r \in (IF IsNode(node, Top(t).ptr) THEN {Text(node, Top(t).ptr)} ELSE Texts(MaxLen)) :
         stack' = SetTop(t, [Top(t) EXCEPT !.pc = "return", !.res = r])
    /\ UNCHANGED <<live, rep, node, holds, ub>>
    /\ Observe(t, {})

\* --------------------------------------------------------------- operator+

\* The five overloads: text + text, text + C-string, C-string + text,
\* text + char, char + text (f.s is the C-string, or holds the char).
PlusKinds == {"plus", "plus_tc", "plus_ct", "plus_th", "plus_ht"}

\* operator+( left, right ): RexxString temp( left );
Enter_plus(t, st, f) ==
    \/ /\ f.k \in {"plus", "plus_tc", "plus_th"}
       /\ Enter_ctor_copy(t, Push(st, t, [f EXCEPT !.pc = "plus_append"]),
                          Frame("ctor_copy", Tmp(t), f.h, << >>, 0))
    \/ /\ f.k = "plus_ct"
       /\ Enter_ctor_cstr(t, Push(st, t, [f EXCEPT !.pc = "plus_append"]),
                          Frame("ctor_cstr", Tmp(t), "", f.s, 0))
    \/ /\ f.k = "plus_ht"
       /\ Enter_ctor_char(t, Push(st, t, [f EXCEPT !.pc = "plus_append"]),
                          Frame("ctor_char", Tmp(t), "", f.s, 0))

\* An operator+ that appends its left operand again.
plus_append_left(t) ==
    /\ At(t, "plus_append")
    /\ Enter_append(t, Goto(t, "ret_local"), Frame("append_str", Tmp(t), Top(t).h, << >>, 0))

\* An operator+ that returns temp without appending to it.
plus_append_nothing(t) ==
    /\ At(t, "plus_append")
    /\ stack' = Goto(t, "ret_local")
    /\ UNCHANGED <<live, rep, node, holds, ub>>
    /\ Observe(t, {})

\* temp.append( right ); return temp;
plus_append(t) ==
    /\ At(t, "plus_append")
    /\ Enter_append(t, Goto(t, "ret_local"),
                    IF Top(t).k = "plus_tc" THEN Frame("append_cstr", Tmp(t), "", Top(t).s, 0)
                    ELSE IF Top(t).k = "plus_th" THEN Frame("append_char", Tmp(t), "", Top(t).s, 0)
                    ELSE Frame("append_str", Tmp(t), Top(t).o, << >>, 0))

\* -------------------------------------------------------------- operator>>

\* A loop that ends at the end of the input only.
EndOfLine_input(f) == f.cnt >= Len(f.s)

\* is.get( ch ) fails, or gives '\n': f.s is the stream and f.cnt the number
\* of characters already taken from it.
EndOfLine(f) == IF f.cnt >= Len(f.s) THEN TRUE ELSE f.s[f.cnt + 1] = "\n"

\* operator>>( is, right ): RexxString temp;
Enter_extract(t, st, f) ==
    /\ UNCHANGED <<holds, ub>>
    /\ Construct(t, Tmp(t), << >>, Push(st, t, [f EXCEPT !.pc = "extract_get"]))
    /\ Observe(t, {})

\* while( is.get( ch ) ) { if( ch == '\n' ) break; temp.append( ch ); }
extract_append(t) ==
    /\ At(t, "extract_get")
    /\ ~EndOfLine(Top(t))
    /\ Enter_append(t, SetTop(t, [Top(t) EXCEPT !.cnt = @ + 1]),
                    Frame("append_char", Tmp(t), "", <<Top(t).s[Top(t).cnt + 1]>>, 0))

\* The loop ends (end of input, or the newline is taken); right = temp;
extract_assign(t) ==
    /\ At(t, "extract_get")
    /\ EndOfLine(Top(t))
    /\ Enter_assign(t, SetTop(t, [Top(t) EXCEPT !.pc = "extract_dtor",
                                                !.cnt = IF @ = Len(Top(t).s) THEN @ ELSE @ + 1]),
                    Frame("assign", Top(t).h, Tmp(t), << >>, 0))

\* temp is destroyed as operator>> returns.
extract_dtor(t) ==
    /\ At(t, "extract_dtor")
    /\ Enter_dtor(t, Goto(t, "return"), Frame("dtor", Tmp(t), "", << >>, 0))

\* ---------------------------------------------------------- std::bad_alloc

\* The program runs with an allocator that can fail.
MayFail == "fail" \in DOMAIN prog

\* The methods that return a new RexxString.
TransformKinds ==
    {"left", "right", "center", "copy", "erase2", "insert", "strip", "substr", "subword", "word"}

\* The call f begins with an allocation: new string_node and its workspace,
\* for this, for new_node or for a local RexxString, after the grabber where
\* the method has one.
AllocatesFirst(f) ==
    \/ f.k \in {"ctor_default", "ctor_cstr", "ctor_char", "erase", "extract", "plus_ct", "plus_ht"}
    \/ f.k = "assign_cstr" /\ f.s # NullCStr
    \/ f.k \in {"append_str", "append_cstr", "append_char"}
    \/ f.k \in TransformKinds

\* The next statement of the method thread t is in allocates: the workspace
\* of the new_node it has made, the characters of its result, or the first
\* allocation of the method it calls next.
AllocatesNext(t) ==
    LET f == Top(t)
    IN  \/ f.pc \in {"append_copy", "assign_cstr", "erase", "left_build", "right_build",
                      "copy_build", "center_build", "plus_append"}
        \/ f.pc = "extract_get" /\ ~EndOfLine(f)
        \/ f.pc = "erase2_build" /\ ~Erase_noop(This(t), f.n, f.m)
        \/ f.pc = "insert_build" /\ ~Insert_noop(This(t), f.n, f.m)
        \/ f.pc = "strip_build" /\ Strip(This(t), f.s[1], f.s[2]) # << >>
        \/ f.pc = "substr_build" /\ Offset(f.n) < Len(This(t))
        \/ f.pc = "subword_build" /\ ~Subword_empty(This(t), f.n, f.m, f.s)

\* The first allocation of the call the client makes throws std::bad_alloc:
\* the unique_ptr deletes a string_node that was made, the grabber gives the
\* lock back, and the exception reaches the client.
call_throw(t) ==
    /\ MayFail
    /\ ~Running(t)
    /\ ip[t] < Len(prog.calls[t])
    /\ \E f \in {prog.calls[t][ip[t] + 1]} :
         /\ AllocatesFirst(f)
         /\ f.k \in TransformKinds \cup {"append_str", "append_cstr", "append_char"} => CanGrab(t)
         /\ stack' = Push(stack, t, [f EXCEPT !.pc = "thrown"])
    /\ UNCHANGED <<live, rep, node, holds, ub>>
    /\ Observe(t, {})

\* The allocation thread t is about to make throws std::bad_alloc.
bad_alloc(t) ==
    /\ MayFail
    /\ Running(t)
    /\ AllocatesNext(t)
    /\ stack' = Goto(t, "unwind")
    /\ UNCHANGED <<live, rep, node, holds, ub>>
    /\ Observe(t, {})

\* An unwinding that forgets the string_node of new_node.
unwind_node_leak(t) ==
    /\ At(t, "unwind")
    /\ Top(t).new_node # NULL
    /\ stack' = SetTop(t, [Top(t) EXCEPT !.new_node = NULL])
    /\ UNCHANGED <<live, rep, node, holds, ub>>
    /\ Observe(t, {})

\* ~unique_ptr<string_node>: new_node still owns a string_node and deletes it.
unwind_node(t) ==
    /\ At(t, "unwind")
    /\ Top(t).new_node # NULL
    /\ Store(rep, [node EXCEPT ![Top(t).new_node] = FreeNode],
             SetTop(t, [Top(t) EXCEPT !.new_node = NULL]))
    /\ UNCHANGED <<live, holds, ub>>
    /\ Observe(t, {})

\* The method thread t is in has a local RexxString (result, temp) that lives.
HasLocal(t) == Top(t).k \in TransformKinds \cup PlusKinds \cup {"extract"} /\ live[Local(t)]

\* The local RexxString is destroyed as the exception leaves the method.
unwind_dtor(t) ==
    /\ At(t, "unwind")
    /\ Top(t).new_node = NULL
    /\ HasLocal(t)
    /\ Enter_dtor(t, stack, Frame("dtor", Local(t), "", << >>, 0))

\* An exception that leaves the method with the lock still held.
unwind_pop_held(t) ==
    /\ At(t, "unwind")
    /\ Top(t).new_node = NULL
    /\ ~HasLocal(t)
    /\ stack' = IF Len(stack[t]) = 1
                THEN SetTop(t, [Top(t) EXCEPT !.pc = "thrown", !.locked = FALSE])
                ELSE [Pop(t) EXCEPT ![t][Len(stack[t]) - 1].pc = "unwind"]
    /\ UNCHANGED <<live, rep, node, holds, ub>>
    /\ Observe(t, {})

\* ~grabber, and the exception leaves the method: it goes on in the caller,
\* or reaches the client.
unwind_pop(t) ==
    /\ At(t, "unwind")
    /\ Top(t).new_node = NULL
    /\ ~HasLocal(t)
    /\ Ungrab(t)
    /\ stack' = IF Len(stack[t]) = 1
                THEN SetTop(t, [Top(t) EXCEPT !.pc = "thrown", !.locked = FALSE])
                ELSE [Pop(t) EXCEPT ![t][Len(stack[t]) - 1].pc = "unwind"]
    /\ UNCHANGED <<live, rep, node, ub>>
    /\ Observe(t, {})

\* ------------------------------------------------------------ the client

\* The program is ending: a shared object has been, or is being, deleted.
Teardown ==
    \/ \E g \in Global : ~live[g]
    \/ \E u \in Threads : Running(u) /\ stack[u][1].k = "dtor" /\ stack[u][1].h \in Global

\* Every other thread has finished and destroyed its local object.
Alone(t) == \A u \in Threads \ {t} : ~Running(u) /\ (u \in Workers => ~live[Ret(u)])

\* The methods thread t calls: t1 every one, t2 those of str_testsMT's
\* assigner and appender threads, and erase( ).
Menu(t) ==
    IF t \in Workers
    THEN {"ctor_default", "ctor_cstr", "ctor_copy", "dtor", "assign", "assign_cstr", "length",
          "eq", "append_str", "append_cstr", "append_char", "erase", "right", "conv", "plus",
          "extract"}
    ELSE {"assign", "assign_cstr", "append_char", "erase"}

Fits(h, k) == Len(Val(h)) + k <= MaxLen

\* The calls thread t can make now, as frames.  As in str_testsMT every thread
\* works on *A, and *B is only read and copied from; a local object is made,
\* read, copied from and destroyed.
Calls(t) ==
    LET mine == IF t \in Workers THEN {Ret(t)} ELSE {}
        new == {h \in mine : ~live[h] /\ ~Teardown}
        tgt == IF Teardown THEN {} ELSE {"A"}
        src == IF Teardown THEN {} ELSE Global \cup {h \in mine : live[h]}
        out == IF new = {} THEN {} ELSE Global
    IN  {Frame("ctor_default", h, "", << >>, 0) : h \in new}
        \cup {Frame("ctor_cstr", h, "", s, 0) : h \in new, s \in CStrings}
        \cup {Frame("ctor_copy", h, o, << >>, 0) : h \in new, o \in Global}
        \cup {Frame("dtor", h, "", << >>, 0) :
                h \in {g \in Handles : live[g] /\ (g \in mine \/ (g \in Global /\ Alone(t)))}}
        \cup {Frame("assign", h, o, << >>, 0) : h \in tgt, o \in src}
        \cup {Frame("assign_cstr", h, "", s, 0) : h \in tgt, s \in CStrings \cup {NullCStr}}
        \cup {Frame("length", h, "", << >>, 0) : h \in tgt}
        \cup {Frame("eq", h, o, << >>, 0) : h \in tgt, o \in src}
        \cup {c \in {Frame("append_str", h, o, << >>, 0) : h \in src \ {"B"}, o \in src} :
                Fits(c.h, Len(Val(c.o)))}
        \cup {c \in {Frame("append_cstr", h, "", s, 0) : h \in tgt, s \in CStrings} :
                Fits(c.h, Len(c.s))}
        \cup {Frame("append_char", h, "", <<c>>, 0) :
                h \in {g \in tgt : Fits(g, 1)}, c \in AppendChars}
        \cup {Frame("erase", h, "", << >>, 0) : h \in tgt}
        \cup {Frame("right", h, "", <<p>>, n) : h \in out, p \in Pads, n \in 0 .. MaxLen}
        \cup {Frame("conv", h, "", << >>, 0) : h \in tgt}
        \cup {c \in {Frame("plus", h, o, << >>, 0) : h \in out, o \in out} :
                Fits(c.h, Len(Val(c.o)))}
        \cup {Frame("extract", h, "", s, 0) : h \in tgt, s \in Inputs}

\* The first statement group of the method frame f calls, run on top of st.
Enter(t, st, f) ==
    \/ f.k = "ctor_default" /\ Enter_ctor_default(t, st, f)
    \/ f.k = "ctor_cstr" /\ Enter_ctor_cstr(t, st, f)
    \/ f.k = "ctor_copy" /\ Enter_ctor_copy(t, st, f)
    \/ f.k = "dtor" /\ Enter_dtor(t, st, f)
    \/ f.k = "assign" /\ Enter_assign(t, st, f)
    \/ f.k = "assign_cstr" /\ Enter_assign_cstr(t, st, f)
    \/ f.k = "length" /\ Enter_length(t, st, f)
    \/ f.k = "eq" /\ Enter_eq(t, st, f)
    \/ f.k \in {"append_str", "append_cstr", "append_char"} /\ Enter_append(t, st, f)
    \/ f.k = "erase" /\ Enter_erase(t, st, f)
    \/ f.k = "right" /\ Enter_right(t, st, f)
    \/ f.k = "left" /\ Enter_left(t, st, f)
    \/ f.k = "center" /\ Enter_center(t, st, f)
    \/ f.k = "copy" /\ Enter_copy(t, st, f)
    \/ f.k = "erase2" /\ Enter_erase2(t, st, f)
    \/ f.k = "insert" /\ Enter_insert(t, st, f)
    \/ f.k = "strip" /\ Enter_strip(t, st, f)
    \/ f.k = "substr" /\ Enter_substr(t, st, f)
    \/ f.k = "words" /\ Enter_words(t, st, f)
    \/ f.k = "subword" /\ Enter_subword(t, st, f)
    \/ f.k = "word" /\ Enter_subword(t, st, [f EXCEPT !.m = 1])
    \/ f.k \in {"pos", "pos_str"} /\ Enter_pos(t, st, f)
    \/ f.k = "last_pos" /\ Enter_last_pos(t, st, f)
    \/ f.k = "conv" /\ Enter_conv(t, st, f)
    \/ f.k = "ctor_char" /\ Enter_ctor_char(t, st, f)
    \/ f.k \in PlusKinds /\ Enter_plus(t, st, f)
    \/ f.k = "extract" /\ Enter_extract(t, st, f)
    \/ f.k \in RelKinds /\ Enter_relational(t, st, f)

\* The client calls a method; the call runs the method's first statement group
\* (a method that must wait for the lock has not started).
Call(t) ==
    /\ ~Running(t)
    /\ \E f \in {c \in Calls(t) : c.k \in Menu(t)} : Enter(t, stack, f)

\* The method returns: its grabber (if any) releases the lock, its frame goes.
Return(t) ==
    /\ At(t, "return")
    /\ Ungrab(t)
    /\ stack' = Pop(t)
    /\ node' = [n \in Nodes |-> IF node[n].by = Tag(t, Len(stack[t]))
                                 THEN [node[n] EXCEPT !.by = NoTag] ELSE node[n]]
    /\ UNCHANGED <<live, rep, ub>>
    /\ Observe(t, {})

\* ------------------------------------------------------------ the program

\* str_testsMT: A = new RexxString; B = new RexxString; *B = ...; or B a copy of A.
Init ==
    /\ live = [h \in Handles |-> h \in Global]
    /\ \E a \in {<< >>, <<"a">>} : \E shared \in BOOLEAN :
         /\ rep = [h \in Handles |-> IF h = "A" THEN 1
                                     ELSE IF h = "B" THEN (IF shared THEN 1 ELSE 2) ELSE NULL]
         /\ node = [n \in Nodes |->
                      IF n = 1 THEN [NewNode(a, Len(a) + 1, NoTag) EXCEPT !.count = IF shared THEN 2 ELSE 1]
                      ELSE IF n = 2 /\ ~shared THEN NewNode(<<"a">>, 2, NoTag)
                      ELSE FreeNode]
    /\ holds = [t \in Threads |-> 0]
    /\ stack = [t \in Threads |-> << >>]
    /\ hist = [t \in Threads |-> {}]
    /\ unlockedAcc = {}
    /\ ub = {}
    /\ prog = [own |-> << >>, val |-> << >>, calls |-> [t \in Threads |-> << >>]]
    /\ ip = [t \in Threads |-> 0]

Next ==
    \E t \in Threads :
        \/ Call(t)
        \/ Return(t)
        \/ dtor_release(t)
        \/ assign_cstr(t)
        \/ length_strlen(t)
        \/ eq_strcmp(t)
        \/ append_copy(t)
        \/ append_swap(t)
        \/ erase(t)
        \/ right_build(t)
        \/ ret_nrvo(t)
        \/ ret_copy(t)
        \/ ret_dtor(t)
        \/ conv_use(t)
        \/ plus_append(t)
        \/ extract_append(t)
        \/ extract_assign(t)
        \/ extract_dtor(t)

Spec == Init /\ [][Next]_vars

\* ------------------------------------------------------- scripted clients

\* A client program: own[h] is the object whose string_node object h shares
\* when the threads start (h itself when it has its own), val[h] the text of
\* an owner h, calls[t] the calls thread t makes, in order.

\* Thread 1 runs A = B while thread 2 runs C = D, or B = A; A and D share one
\* representation, B and C another.
AssignPrograms ==
    {[own |-> [A |-> "A", B |-> "B", C |-> "B", D |-> "A"],
      val |-> [A |-> <<"a">>, B |-> <<"x">>],
      calls |-> [t1 |-> <<Frame("assign", "A", "B", << >>, 0)>>, t2 |-> <<c>>]] :
        c \in {Frame("assign", "C", "D", << >>, 0), Frame("assign", "B", "A", << >>, 0)}}

Hello == <<"H", "e", "l", "l", "o", "!">>

\* str_testsMT: *B = "Hello!"; the assigner repeats *A = *B and the appender
\* A->append( "x" ).
SmokePrograms ==
    {[own |-> [A |-> "A", B |-> "B"],
      val |-> [A |-> << >>, B |-> Hello],
      calls |-> [t1 |-> [i \in 1 .. Rounds |-> Frame("assign", "A", "B", << >>, 0)],
                 t2 |-> [i \in 1 .. Rounds |-> Frame("append_cstr", "A", "", <<"x">>, 0)]]]}

\* A program of one thread: the other thread makes no call.
Solo(own, val, calls) == [own |-> own, val |-> val, calls |-> [t1 |-> calls, t2 |-> << >>]]

\* Two objects A and B, with their own texts or sharing one string_node.
TwoObjects ==
    {[own |-> [A |-> "A", B |-> "B"], val |-> [A |-> a, B |-> <<"x", "a">>]] :
        a \in {<< >>, <<"a">>}}
    \cup {[own |-> [A |-> "A", B |-> "A"], val |-> [A |-> a]] : a \in {<< >>, <<"a">>, <<"x", "a">>}}

\* append_test: one append to A of a RexxString (A itself, or B), of a
\* C-string (also one that points at A's or B's own characters) or of a char.
AppendCalls ==
    {Frame("append_str", "A", o, << >>, 0) : o \in {"A", "B"}}
    \cup {Frame("append_cstr", "A", "", x, 0) : x \in CStrings \cup {<<"a", "x">>}}
    \cup {Frame("append_cstr", "A", o, << >>, 0) : o \in {"A", "B"}}
    \cup {Frame("append_char", "A", "", <<"x">>, 0)}

AppendPrograms == {Solo(o.own, o.val, <<c>>) : o \in TwoObjects, c \in AppendCalls}

\* append_test: the same append to an empty A, several times over.
RepeatPrograms ==
    {Solo([A |-> "A", B |-> "B"], [A |-> << >>, B |-> <<"x", "a">>], [i \in 1 .. Rounds + 1 |-> c]) :
        c \in {Frame("append_str", "A", "B", << >>, 0),
                Frame("append_cstr", "A", "", <<"a", "x">>, 0),
                Frame("append_char", "A", "", <<"x">>, 0)}}

\* One call of operator+, every overload, on A and B (also A + A).
PlusCalls ==
    {Frame("plus", h, o, << >>, 0) : h \in {"A", "B"}, o \in {"A", "B"}}
    \cup {Frame("plus_tc", "A", "", x, 0) : x \in CStrings}
    \cup {Frame("plus_ct", "", "A", x, 0) : x \in CStrings}
    \cup {Frame("plus_th", "A", "", <<"x">>, 0), Frame("plus_ht", "", "A", <<"x">>, 0)}

PlusPrograms == {Solo(o.own, o.val, <<c>>) : o \in TwoObjects, c \in PlusCalls}

\* What a thread does to B, and to a copy C of B, while another thread uses
\* the pointer it got from static_cast<const char *>( A ).
OtherCalls ==
    {<<Frame("append_char", "B", "", <<"x">>, 0)>>,
     <<Frame("erase", "B", "", << >>, 0)>>,
     <<Frame("assign_cstr", "B", "", <<"a">>, 0)>>,
     <<Frame("dtor", "B", "", << >>, 0)>>,
     <<Frame("ctor_copy", "C", "B", << >>, 0), Frame("dtor", "B", "", << >>, 0)>>,
     <<Frame("ctor_copy", "C", "B", << >>, 0), Frame("append_cstr", "C", "", <<"a">>, 0),
       Frame("dtor", "C", "", << >>, 0)>>}

ConvPrograms ==
    {[own |-> o.own, val |-> o.val,
      calls |-> [t1 |-> <<Frame("conv", "A", "", << >>, 0)>>, t2 |-> c]] :
        o \in TwoObjects, c \in OtherCalls}

\* A call with two numbers.
Frame2(k, h, o, s, n, m) == [Frame(k, h, o, s, n) EXCEPT !.m = m]

\* The caller takes what call c returns, appends a character to it and
\* destroys it.
Then(c) ==
    <<c, Frame("append_char", "ret1", "", <<"x">>, 0), Frame("dtor", "ret1", "", << >>, 0)>>

\* left_right_test: left( length, pad ) of a text, shorter, as long and longer.
Junk == <<"J", "u", "n", "k">>

LeftPrograms ==
    {Solo(o.own, o.val, Then(Frame("left", "A", "", <<p>>, n))) :
        o \in TwoObjects, n \in 0 .. MaxLen + 1, p \in Pads \cup {"-"}}
    \cup {Solo([A |-> "A"], [A |-> Junk], Then(Frame("left", "A", "", <<"-">>, n))) : n \in {3, 9}}

\* The numbers given as positions, lengths and counts: none, some, all and
\* more than the text has.
Sizes == 0 .. MaxLen + 1

\* The counts, and the positions from which a search starts: also the
\* default, the largest size_t.
Counts == Sizes \cup {SIZE_MAX}

\* The methods that return a new RexxString, called on A, with every
\* argument.
TransformCalls ==
    {Frame(k, "A", "", <<p>>, n) : k \in {"right", "center"}, n \in Sizes, p \in Pads}
    \cup {Frame("copy", "A", "", << >>, n) : n \in 0 .. 2}
    \cup {Frame2(k, "A", "", << >>, n, m) : k \in {"erase2", "substr"}, n \in Sizes, m \in Counts}
    \cup {Frame2("insert", "A", o, << >>, n, m) : o \in {"A", "B"}, n \in Sizes, m \in Counts}
    \cup {Frame("strip", "A", "", <<md, c>>, 0) : md \in {"L", "T", "B", "?"}, c \in {"x", " "}}
    \cup {Frame2("subword", "A", "", w, n, m) : w \in {nullptr, <<"x">>}, n \in Sizes, m \in Sizes}
    \cup {Frame("word", "A", "", w, n) : w \in {nullptr, <<"x">>}, n \in Sizes}

\* The methods that return a number, called on A.
QueryCalls ==
    {Frame("length", "A", "", << >>, 0)}
    \cup {Frame("words", "A", "", w, 0) : w \in {nullptr, <<"x">>}}
    \cup {Frame(k, "A", "", <<c>>, n) : k \in {"pos", "last_pos"}, c \in Chars \cup {NUL}, n \in Counts}
    \cup {Frame("pos_str", "A", "", x, n) : x \in {<< >>, <<"a">>, <<"x", "a">>}, n \in Counts}
    \cup {Frame("eq", "A", "B", << >>, 0)}

\* A text of two words with blanks around them.
Blanks ==
    {[own |-> [A |-> "A", B |-> b], val |-> [A |-> <<" ", "a", " ", "x", " ">>] @@ v] :
        <<b, v>> \in {<<"A", << >>>>, <<"B", [B |-> <<"x">>]>>}}

TransformPrograms ==
    {Solo(o.own, o.val, Then(c)) : o \in TwoObjects \cup Blanks, c \in TransformCalls}
    \cup {Solo(o.own, o.val, <<c>>) : o \in TwoObjects \cup Blanks, c \in QueryCalls}

\* The calls of the unit tests on "Junk", with "xxxx" to insert.
UnitCalls ==
    {Then(Frame("right", "A", "", <<"-">>, 9)), Then(Frame("center", "A", "", <<"-">>, 11)),
     Then(Frame("center", "A", "", <<"-">>, 3)), Then(Frame("copy", "A", "", << >>, 5)),
     Then(Frame2("erase2", "A", "", << >>, 2, 2)), Then(Frame2("erase2", "A", "", << >>, 1, SIZE_MAX)),
     Then(Frame2("insert", "A", "B", << >>, 2, 3)), Then(Frame2("insert", "A", "B", << >>, 1, SIZE_MAX)),
     Then(Frame2("insert", "A", "A", << >>, 5, SIZE_MAX)), Then(Frame2("substr", "A", "", << >>, 2, 2)),
     <<Frame("pos", "A", "", <<"n">>, 2)>>, <<Frame("pos_str", "A", "", <<"n", "k">>, 2)>>,
     <<Frame("pos", "A", "", <<NUL>>, 1)>>, <<Frame("last_pos", "A", "", <<"n">>, SIZE_MAX)>>,
     <<Frame("last_pos", "A", "", <<"n">>, 0)>>}

UnitPrograms ==
    {Solo([A |-> "A", B |-> "B"], [A |-> Junk, B |-> <<"x", "x", "x", "x">>], c) : c \in UnitCalls}

\* A and B with every pair of texts, or sharing one string_node.
EveryPair ==
    {[own |-> [A |-> "A", B |-> "B"], val |-> [A |-> a, B |-> b]] :
        a \in Texts(MaxLen), b \in Texts(MaxLen)}
    \cup {[own |-> [A |-> "A", B |-> "A"], val |-> [A |-> a]] : a \in Texts(MaxLen)}

\* RexxString C = A + B; and then the length of C, or one of the two parts
\* of C: A.length( ) characters from position 1, or B.length( ) characters
\* from position A.length( ) + 1.
ConcatPrograms ==
    UNION {{Solo(o.own, o.val,
                 <<Frame("plus", "A", "B", << >>, 0), Frame("ctor_copy", "C", "ret1", << >>, 0),
                   Frame("dtor", "ret1", "", << >>, 0), c>>) :
              c \in {Frame("length", "C", "", << >>, 0),
                      Frame2("substr", "C", "", << >>, 1, Len(o.val[o.own["A"]])),
                      Frame2("substr", "C", "", << >>, Len(o.val[o.own["A"]]) + 1,
                             Len(o.val[o.own["B"]]))}} :
           o \in EveryPair}

\* strip_test: object_1 = object_1.strip( mode, kill_char ), and the same
\* strip of the result once more; the texts have kill_chars at the front, at
\* the back, at both ends, in the middle, everywhere and nowhere.
StripTexts ==
    {<<"x", "x">>, <<"a", "x", "a">>, <<"x", "a", "x", "a", "x", "x">>, <<"x", "x", "a">>,
     <<"#", "#", "#", "J", "u", "n", "k", "#", "#", "#">>}
        \cup Texts(1)

StripPrograms ==
    {Solo([A |-> "A"], [A |-> a],
          <<Frame("strip", "A", "", <<md, c>>, 0), Frame("ctor_copy", "C", "ret1", << >>, 0),
            Frame("dtor", "ret1", "", << >>, 0), Frame("strip", "C", "", <<md, c>>, 0)>>) :
        a \in StripTexts, md \in {"L", "T", "B"}, c \in {"x", "#"}}

\* words_test, subword_test: "I love my junk", the "HixThereyYouz" of the
\* documentation of subword cut short, and texts with delimiters of every
\* default kind, at the front, at the back and repeated.
ILove == <<"I", " ", "l", "o", "v", "e", " ", "m", "y", " ", "j", "u", "n", "k">>

WordTexts ==
    {ILove, <<"H", "i", "x", "T", "y", "z", "Y", "z">>, << >>, <<" ", " ">>, <<"a">>,
     <<" ", "a", " ", " ", "x", "\t", "a", " ">>, <<"a", "\n", "x", "\r", "VT", "a", "\f", "x">>}

\* No delimiter string, and the delimiter strings " ", "xyz" and "".
WordDelims == {nullptr, <<" ">>, <<"x", "y", "z">>, << >>}

WordsPrograms ==
    {Solo([A |-> "A"], [A |-> a], <<Frame("words", "A", "", w, 0)>>) :
        a \in WordTexts, w \in WordDelims}

\* RexxString C = A.word( pos, delims ); and then A.subword( pos, count,
\* delims ): from the position before the first word to the one after the
\* last, and from no word to more words than there are.
SubwordPrograms ==
    {Solo([A |-> "A"], [A |-> a],
          <<Frame("word", "A", "", w, n), Frame("ctor_copy", "C", "ret1", << >>, 0),
            Frame("dtor", "ret1", "", << >>, 0), Frame2("subword", "A", "", w, n, m)>>) :
        a \in WordTexts, w \in WordDelims, n \in 0 .. 5, m \in {0, 1, 2, 4, SIZE_MAX}}

\* A relational operator applied to A and B, to A and a copy of A, and to A
\* and A itself; the texts are equal, one the start of the other, and
\* different in the first or a later character.
CompareTexts == {<< >>, <<"a">>, <<"x">>, <<"A", "x">>, <<"a", " ">>, <<"a", "x">>, <<"a", "a", "x">>}

ComparePrograms ==
    {Solo(o.own, o.val, <<Frame(k, "A", b, << >>, 0)>>) :
        o \in {[own |-> [A |-> "A", B |-> "B"], val |-> [A |-> x, B |-> y]] :
                  x \in CompareTexts, y \in CompareTexts}
               \cup {[own |-> [A |-> "A", B |-> "A"], val |-> [A |-> x]] : x \in CompareTexts},
        k \in RelKinds \cup {"eq"}, b \in {"A", "B"}}

\* IO_test: input >> object_1, with "World" waiting in the stream for
\* "Hello", and for A (B sharing its buffer or not) an empty stream, a line
\* without a newline, an empty line, and lines followed by more input.
World == <<"W", "o", "r", "l", "d">>

Streams ==
    Inputs \cup {<< >>, <<"\n">>, <<"\n", "x">>, <<"a", "x", "\n">>, <<"a", "\n", "\n", "x">>}

ExtractPrograms ==
    {Solo(o.own, o.val, <<Frame("extract", "A", "", x, 0)>>) : o \in TwoObjects, x \in Streams}
    \cup {Solo([A |-> "A"], [A |-> <<"H", "e", "l", "l", "o">>], <<Frame("extract", "A", "", World, 0)>>)}

\* A = static_cast<const char *>( nullptr ), by a client alone, with an
\* allocator that can fail or not, and while another thread appends to B.
NullPrograms ==
    {Solo(o.own, o.val, <<Frame("assign_cstr", "A", "", NullCStr, 0)>>) : o \in TwoObjects}
    \cup {Solo(o.own, o.val, <<Frame("assign_cstr", "A", "", NullCStr, 0)>>) @@ [fail |-> TRUE] :
             o \in TwoObjects}
    \cup {[own |-> o.own, val |-> o.val,
            calls |-> [t1 |-> <<Frame("assign_cstr", "A", "", NullCStr, 0)>>,
                       t2 |-> <<Frame("append_char", "B", "", <<"x">>, 0)>>]] : o \in TwoObjects}

\* The methods that take a position and a count, called with the largest
\* size_t for a position, and subword also with it for a count.
RangeCalls ==
    {Frame2(k, "A", "", << >>, SIZE_MAX, m) : k \in {"erase2", "substr"}, m \in {0, 1, SIZE_MAX}}
    \cup {Frame2("insert", "A", o, << >>, SIZE_MAX, m) : o \in {"A", "B"}, m \in {0, 1, SIZE_MAX}}
    \cup {Frame2("subword", "A", "", w, n, m) :
             w \in {nullptr, <<"x">>}, <<n, m>> \in (Counts \X {SIZE_MAX}) \cup ({SIZE_MAX} \X {0, 1})}

RangePrograms == {Solo(o.own, o.val, Then(c)) : o \in TwoObjects \cup Blanks, c \in RangeCalls}

\* One call of every method that allocates, by a client whose allocator can
\* fail.
FaultCalls ==
    AppendCalls \cup PlusCalls \cup TransformCalls
    \cup {Frame("left", "A", "", <<"x">>, n) : n \in Sizes}
    \cup {Frame("ctor_default", "C", "", << >>, 0), Frame("ctor_char", "C", "", <<"x">>, 0),
          Frame("erase", "A", "", << >>, 0)}
    \cup {Frame(k, h, "", x, 0) : <<k, h>> \in {<<"ctor_cstr", "C">>, <<"assign_cstr", "A">>},
                                  x \in CStrings}
    \cup {Frame("extract", "A", "", x, 0) : x \in Inputs}

FaultPrograms ==
    {Solo(o.own, o.val, <<c>>) @@ [fail |-> TRUE] : o \in TwoObjects \cup Blanks, c \in FaultCalls}

Programs ==
    AssignPrograms \cup SmokePrograms \cup AppendPrograms \cup RepeatPrograms \cup PlusPrograms
        \cup ConvPrograms \cup LeftPrograms \cup TransformPrograms \cup FaultPrograms
        \cup UnitPrograms \cup ConcatPrograms \cup StripPrograms
        \cup ComparePrograms
        \cup ExtractPrograms \cup NullPrograms \cup RangePrograms

\* The objects of program p exist, the threads have not started.
InitP ==
    \E p \in Programs :
        /\ prog = p
        /\ live = [h \in Handles |-> h \in DOMAIN p.own]
        /\ rep = [h \in Handles |-> IF h \in DOMAIN p.own THEN Home(p.own[h]) ELSE NULL]
        /\ node = [n \in Nodes |->
                     IF \E h \in DOMAIN p.val : Home(h) = n
                     THEN LET o == CHOOSE h \in DOMAIN p.val : Home(h) = n
                          IN  [NewNode(p.val[o], Len(p.val[o]) + 1, NoTag) EXCEPT
                                 !.count = Cardinality({g \in DOMAIN p.own : p.own[g] = o})]
                     ELSE FreeNode]
        /\ holds = [t \in Threads |-> 0]
        /\ stack = [t \in Threads |-> << >>]
        /\ hist = [t \in Threads |-> {}]
        /\ unlockedAcc = {}
        /\ ub = {}
        /\ ip = [t \in Threads |-> 0]

\* Thread t's client code makes its next call.
CallP(t) ==
    /\ ~Running(t)
    /\ ip[t] < Len(prog.calls[t])
    /\ Enter(t, stack, prog.calls[t][ip[t] + 1])

StepP(t) ==
    \/ CallP(t)
    \/ Return(t)
    \/ dtor_release(t)
    \/ assign_cstr(t)
    \/ length_strlen(t)
    \/ eq_strcmp(t)
    \/ append_copy(t)
    \/ append_swap(t)
    \/ erase(t)
    \/ right_build(t)
    \/ ret_nrvo(t)
    \/ ret_copy(t)
    \/ ret_dtor(t)
    \/ conv_use(t)
    \/ plus_append(t)
    \/ extract_append(t)
    \/ extract_assign(t)
    \/ extract_dtor(t)
    \/ left_build(t)
    \/ center_left(t)
    \/ center_dtor(t)
    \/ center_build(t)
    \/ copy_build(t)
    \/ erase2_noop(t)
    \/ erase2_build(t)
    \/ insert_noop(t)
    \/ insert_build(t)
    \/ strip_build(t)
    \/ substr_build(t)
    \/ words_scan(t)
    \/ subword_words(t)
    \/ subword_build(t)
    \/ pos_scan(t)
    \/ last_pos_scan(t)
    \/ relational(t)
    \/ call_throw(t)
    \/ bad_alloc(t)
    \/ unwind_node(t)
    \/ unwind_dtor(t)
    \/ unwind_pop(t)

NextP == \E t \in Threads : StepP(t)

\* Every thread that can take a step eventually takes one (the lock is handed
\* to a waiting thread once it is free).
SpecP == InitP /\ [][NextP]_vars /\ \A t \in Threads : WF_vars(StepP(t))

\* ------------------------------------------------------ private copies

\* The handles of the handle programs: A, B, a copy C and the object a
\* method returns.
ShareHandles == {"A", "B", "C", "ret1"}

\* A handle that owns the text T, and a handle that does not exist.
Private(T) == [live |-> TRUE, text |-> T]
Gone == [live |-> FALSE, text |-> << >>]

\* One call c on handles v that each own a private copy of their text:
\* no buffer is shared and nothing is counted.
RefStep(v, c) ==
    CASE c.k \in {"ctor_copy", "assign"} -> [v EXCEPT ![c.h] = Private(v[c.o].text)]
      [] c.k = "ctor_cstr" -> [v EXCEPT ![c.h] = Private(c.s)]
      [] c.k = "dtor" -> [v EXCEPT ![c.h] = Gone]
      [] c.k = "append_str" -> [v EXCEPT ![c.h] = Private(v[c.h].text \o v[c.o].text)]
      [] c.k \in {"append_cstr", "append_char"} -> [v EXCEPT ![c.h] = Private(v[c.h].text \o c.s)]
      [] c.k = "erase" -> [v EXCEPT ![c.h] = Private(<< >>)]
      [] c.k = "left" -> [v EXCEPT !["ret1"] = Private(Left(v[c.h].text, c.n, c.s[1]))]
      [] c.k = "plus" -> [v EXCEPT !["ret1"] = Private(v[c.h].text \o v[c.o].text)]
      [] OTHER -> v

\* The handles after the first k of the calls.
RECURSIVE RefRun(_, _, _)
RefRun(v, calls, k) == IF k = 0 THEN v ELSE RefStep(RefRun(v, calls, k - 1), calls[k])

\* Client code may make call c: it constructs an object that does not
\* exist, and uses objects that do.
Allowed(v, c) ==
    CASE c.k = "ctor_copy" -> ~v[c.h].live /\ v[c.o].live
      [] c.k = "ctor_cstr" -> ~v[c.h].live
      [] c.k = "left" -> v[c.h].live /\ ~v["ret1"].live
      [] c.k = "plus" -> v[c.h].live /\ v[c.o].live /\ ~v["ret1"].live
      [] OTHER -> v[c.h].live /\ (c.o \in ShareHandles => v[c.o].live)

\* A and B with a text each, and A and B sharing one string_node.
ShareStarts ==
    {[own |-> [A |-> "A", B |-> "B"], val |-> [A |-> <<"a">>, B |-> <<"x", "a">>]],
     [own |-> [A |-> "A", B |-> "A"], val |-> [A |-> <<"a">>]]}

\* The handles of the start o, each with a private copy of its text.
PrivateStart(o) ==
    [h \in ShareHandles |-> IF h \in DOMAIN o.own THEN Private(o.val[o.own[h]]) ELSE Gone]

\* Construct, copy, assign, append, erase( ), left, operator+, destroy, and
\* the observers length, ==, < and operator const char *.
ShareCalls ==
    {Frame("ctor_copy", "C", "A", << >>, 0), Frame("ctor_cstr", "C", "", <<"a">>, 0)}
    \cup {Frame("assign", h, o, << >>, 0) :
            <<h, o>> \in {<<"A", "B">>, <<"B", "A">>, <<"A", "A">>, <<"B", "ret1">>}}
    \cup {Frame("append_str", "A", o, << >>, 0) : o \in {"A", "B"}}
    \cup {Frame("append_char", "B", "", <<"x">>, 0), Frame("append_cstr", "C", "", <<"a">>, 0)}
    \cup {Frame("erase", "A", "", << >>, 0)}
    \cup {Frame("left", "A", "", <<"x">>, 3), Frame("plus", "A", "B", << >>, 0)}
    \cup {Frame("dtor", h, "", << >>, 0) : h \in {"A", "C", "ret1"}}
    \cup {Frame("length", "C", "", << >>, 0), Frame("conv", "B", "", << >>, 0)}
    \cup {Frame(k, "A", o, << >>, 0) : k \in {"eq", "lt"}, o \in {"B", "C"}}

\* Every sequence of k of these calls that client code may make on the
\* handles v.
RECURSIVE Runs(_, _)
Runs(v, k) ==
    IF k = 0 THEN {<< >>}
    ELSE UNION {{<<c>> \o q : q \in Runs(RefStep(v, c), k - 1)} :
                  c \in {d \in ShareCalls : Allowed(v, d)}}

\* A thread makes Rounds + 1 calls.
SharePrograms ==
    UNION {{Solo(o.own, o.val, s) : s \in Runs(PrivateStart(o), Rounds + 1)} : o \in ShareStarts}

\* words_test and subword_test, with their texts of several words: one
\* thread counts the words of A, or takes a word and a subword of A.
WordPrograms == WordsPrograms \cup SubwordPrograms

\* The programs of one thread that are checked step by step.
StepPrograms == WordPrograms \cup SharePrograms

\* The objects of program p exist, the thread has not started.
InitW ==
    \E p \in StepPrograms :
        /\ prog = p
        /\ live = [h \in Handles |-> h \in DOMAIN p.own]
        /\ rep = [h \in Handles |-> IF h \in DOMAIN p.own THEN Home(p.own[h]) ELSE NULL]
        /\ node = [n \in Nodes |->
                     IF \E h \in DOMAIN p.val : Home(h) = n
                     THEN LET o == CHOOSE h \in DOMAIN p.val : Home(h) = n
                          IN  [NewNode(p.val[o], Len(p.val[o]) + 1, NoTag) EXCEPT
                                 !.count = Cardinality({g \in DOMAIN p.own : p.own[g] = o})]
                     ELSE FreeNode]
        /\ holds = [t \in Threads |-> 0]
        /\ stack = [t \in Threads |-> << >>]
        /\ hist = [t \in Threads |-> {}]
        /\ unlockedAcc = {}
        /\ ub = {}
        /\ ip = [t \in Threads |-> 0]

\* The steps of words, word and subword and of the calls of the handle
\* programs, of the return of a result and of the copy and the destructor
\* the client calls.
StepW(t) ==
    \/ CallP(t)
    \/ Return(t)
    \/ dtor_release(t)
    \/ length_strlen(t)
    \/ eq_strcmp(t)
    \/ relational(t)
    \/ append_copy(t)
    \/ append_swap(t)
    \/ erase(t)
    \/ conv_use(t)
    \/ plus_append(t)
    \/ left_build(t)
    \/ ret_nrvo(t)
    \/ ret_copy(t)
    \/ ret_dtor(t)
    \/ words_scan(t)
    \/ subword_words(t)
    \/ subword_build(t)

NextW == \E t \in Threads : StepW(t)

SpecW == InitW /\ [][NextW]_vars

\* ------------------------------------------------------------- properties

\* A call of one of the kinds K that took the lock is about to return (the
\* lock is still held); Top(t).pre is what it found when it took the lock.
Done(t, K) == At(t, "return") /\ Top(t).k \in K /\ Top(t).pre.valid

\* The outermost call of thread t, of one of the kinds K, is about to return.
Returning(t, K) == At(t, "return") /\ Len(stack[t]) = 1 /\ Top(t).k \in K

Mutators == {"append_str", "append_cstr", "append_char", "erase", "assign", "assign_cstr"}

\* The mutators that build the new value in a string_node of their own.
BuildKinds == {"append_str", "append_cstr", "append_char", "erase", "assign_cstr"}

\* The number of live objects whose rep points to node n.
Refs(n) == Cardinality({h \in Handles : live[h] /\ rep[h] = n})

\* Node n was made by the call that is on top of thread t's stack.
Fresh(t, n) == IsNode(node, n) /\ node[n].by = Tag(t, Len(stack[t]))

\* C1: a mutating operation on b (the three appends, erase( ), the two
\* assignments) leaves the value of every object a that shared b's buffer
\* unchanged, and after b.append( 'x' ) the sharer a differs from b.
C1_CowIsolation ==
    \A t \in Threads : Done(t, Mutators) =>
        \A a \in Handles \ {Top(t).h} :
            (Top(t).pre.live[a] /\ Top(t).pre.rep[a] = Top(t).pre.rep[Top(t).h]) =>
                /\ live[a]
                /\ Val(a) = Top(t).pre.val[a]
                /\ Top(t).k = "append_char" => Val(a) # Val(Top(t).h)

\* b.append( 'x' ) has run on a b that shared its buffer with a.
C1_Witness ==
    \E t \in Threads : Done(t, {"append_char"}) /\
        \E a \in Handles \ {Top(t).h} :
            /\ Top(t).pre.live[a]
            /\ Top(t).pre.rep[a] = Top(t).pre.rep[Top(t).h]
            /\ Val(a) = Top(t).pre.val[a]
            /\ Val(Top(t).h) = Top(t).pre.val[a] \o Top(t).s

C3_ValidRep == \A h \in Handles : live[h] => IsNode(node, rep[h])

\* a = b has run for distinct a and b that already shared one buffer.
C3_Witness ==
    \E t \in Threads : Done(t, {"assign"}) /\
        /\ Top(t).h # Top(t).o
        /\ Top(t).pre.rep[Top(t).h] = Top(t).pre.rep[Top(t).o]
        /\ IsNode(node, rep[Top(t).h])
        /\ rep[Top(t).h] = rep[Top(t).o]

\* The value of object h in the next state.
ValNext(h) == Text(node', rep'[h])

\* In this step the value of the live object a changes only because a call on
\* a adopts a buffer that this very call made (count 1), or, when copying is
\* TRUE, because a copy assignment to a adopts its source's buffer, or because
\* a is the local result that right( ) is building.
ChangesByReplacing(a, copying) ==
    (live[a] /\ live'[a] /\ ValNext(a) # Val(a)) =>
        \E t \in Threads :
            /\ stack'[t] # << >>
            /\ LET f == stack'[t][Len(stack'[t])] IN
                 \/ /\ f.h = a
                    /\ f.k \in BuildKinds
                    /\ f.pc = "return"
                    /\ IsNode(node', rep'[a])
                    /\ node'[rep'[a]].by = Tag(t, Len(stack'[t]))
                    /\ node'[rep'[a]].count = 1
                 \/ copying /\ f.h = a /\ f.k = "assign" /\ rep'[a] = rep'[f.o]
                 \/ f.k = "right" /\ f.pc = "ret_local" /\ a = Tmp(t)

\* C4 as stated: every call that changes an object's content, assignment
\* included, leaves the object with a buffer that the call itself allocated.
C4_Literal ==
    \A t \in Threads :
        (Done(t, BuildKinds \cup {"assign"}) /\ Val(Top(t).h) # Top(t).pre.val[Top(t).h])
            => Fresh(t, rep[Top(t).h])

\* C4 as the code has it: the bytes of a buffer an object points to never
\* change (the local result of right( ) apart); append, erase( ) and
\* operator=( const char * ) always leave the object with a buffer of count 1
\* that the call itself allocated, also when the old count was 1; copy
\* assignment allocates nothing and adopts the source's buffer.
C4_NeverInPlace ==
    /\ [][\A a \in Handles : ChangesByReplacing(a, TRUE)]_vars
    /\ [](\A t \in Threads : Done(t, BuildKinds) =>
              Fresh(t, rep[Top(t).h]) /\ node[rep[Top(t).h]].count = 1)

\* append( 'x' ) has run on an object whose buffer had count 1, and the object
\* now has a buffer made by this call.
C4_Witness ==
    \E t \in Threads : Done(t, {"append_char"}) /\
        /\ Top(t).pre.count[Top(t).h] = 1
        /\ Fresh(t, rep[Top(t).h])
        /\ Val(Top(t).h) = Top(t).pre.val[Top(t).h] \o Top(t).s

\* C5: copy construction b( a ) and copy assignment b = a allocate nothing;
\* afterwards b.rep is a.rep, the buffer's count has grown by the one new
\* reference, a == b holds and the lengths are equal.
C5_SharingOnCopy ==
    \A t \in Threads : Done(t, {"ctor_copy", "assign"}) =>
        LET b == Top(t).h
            a == Top(t).o
            pre == Top(t).pre
        IN  /\ rep[b] = rep[a]
            /\ IsNode(node, rep[a])
            /\ node[rep[a]].count =
                   pre.count[a] + (IF pre.live[b] /\ pre.rep[b] = pre.rep[a] THEN 0 ELSE 1)
            /\ \A n \in Nodes : ~Fresh(t, n)
            /\ Val(a) = pre.val[a]
            /\ Val(b) = Val(a)
            /\ Len(Val(b)) = Len(Val(a))

\* b = a has run for a b that had a buffer of its own with another value.
C5_Witness ==
    \E t \in Threads : Done(t, {"assign"}) /\
        /\ Top(t).pre.rep[Top(t).h] # Top(t).pre.rep[Top(t).o]
        /\ Top(t).pre.val[Top(t).h] # Top(t).pre.val[Top(t).o]
        /\ rep[Top(t).h] = rep[Top(t).o]
        /\ node[rep[Top(t).o]].count = Top(t).pre.count[Top(t).o] + 1

\* C6: no string_node is used after it was deleted (none is deleted twice);
\* every allocated buffer is pointed to by a live object or is the new buffer
\* of a running call; and once every object is destroyed no buffer remains.
C6_NoLeakNoDoubleFree ==
    /\ "freed" \notin ub
    /\ \A n \in Nodes : node[n].alloc =>
           \/ Refs(n) > 0
           \/ \E t \in Threads : Running(t) /\ Top(t).new_node = n
    /\ \A h \in Handles : live[h] => node[rep[h]].count >= 1
    /\ (\A h \in Handles : ~live[h]) => \A n \in Nodes : ~node[n].alloc

\* One thread is destroying an object while another is about to release the
\* same buffer through erase( ) on an object that shares it.
C6_Witness ==
    \E t \in Threads : \E u \in Threads \ {t} :
        /\ At(t, "dtor_release")
        /\ At(u, "erase")
        /\ rep[Top(t).h] = rep[Top(u).h]
        /\ node[rep[Top(t).h]].count = 2

IsDouble(v) ==
    /\ Len(v) % 2 = 0
    /\ SubSeq(v, 1, Len(v) \div 2) = SubSeq(v, Len(v) \div 2 + 1, Len(v))

\* The line operator>> takes from the stream s.
Line(s) ==
    LET ends == {i \in 1 .. Len(s) : s[i] = "\n"}
    IN  IF ends = {} THEN s ELSE SubSeq(s, 1, Least(ends) - 1)

\* C8 as stated, for L and R the same object: operator+( L, L ) returns the
\* value L held at one instant followed by that same value.
C8_Literal ==
    \A t \in Threads :
        (Returning(t, {"plus"}) /\ Top(t).h = Top(t).o) => IsDouble(Val(Ret(t)))

\* C8 as the code has it: each member function takes effect at once while it
\* holds the lock (the object gets the value computed from what the call found
\* when it took the lock); operator+( L, R ) returns a value L held during the
\* call followed by a value R held during the call, not necessarily at the
\* same instant; operator>> gives the object the line read in one assignment.
C8_Linearized ==
    \A t \in Threads :
        /\ Done(t, {"append_str"}) =>
               Val(Top(t).h) = Top(t).pre.val[Top(t).h] \o Top(t).pre.val[Top(t).o]
        /\ Done(t, {"append_cstr", "append_char", "assign_cstr"}) =>
               Val(Top(t).h) = (IF Top(t).k = "assign_cstr" THEN << >>
                                ELSE Top(t).pre.val[Top(t).h]) \o Top(t).s
        /\ Done(t, {"erase"}) => Val(Top(t).h) = << >>
        /\ Done(t, {"assign", "ctor_copy"}) => Val(Top(t).h) = Top(t).pre.val[Top(t).o]
        /\ Returning(t, {"plus"}) =>
               \E p \in hist[t] : \E q \in hist[t] : Val(Ret(t)) = p[1] \o q[2]
        /\ (Done(t, {"assign"}) /\ stack[t][1].k = "extract") =>
               Val(stack[t][1].h) = Line(stack[t][1].s)

\* operator+( L, L ) has run while another thread changed L.
C8_Witness ==
    \E t \in Threads :
        /\ Returning(t, {"plus"})
        /\ Top(t).h = Top(t).o
        /\ Cardinality(hist[t]) > 1
        /\ \E p \in hist[t] : \E q \in hist[t] : p # q /\ Val(Ret(t)) = p[1] \o q[2]

\* C9: append( const RexxString &other ) measures and copies other from one
\* and the same buffer, never writes past the workspace it allocated, and
\* leaves this with its old value followed by the value other had when the
\* call took the lock.
C9_AppendAtomic ==
    /\ "overrun" \notin ub
    /\ \A t \in Threads :
         /\ (At(t, "append_swap") /\ Top(t).k = "append_str") =>
                /\ Top(t).ptr2 = rep[Top(t).o]
                /\ IsNode(node, Top(t).new_node)
                /\ Len(node[Top(t).new_node].workspace) = Top(t).cnt
                /\ Top(t).cnt + 1 <= node[Top(t).new_node].cap
         /\ Done(t, {"append_str"}) =>
                Val(Top(t).h) = Top(t).pre.val[Top(t).h] \o Top(t).pre.val[Top(t).o]

\* this.append( other ) has run while another thread is in the middle of an
\* operator=( const char * ) on other that will change other's value.
C9_Witness ==
    \E t \in Threads : \E u \in Threads \ {t} :
        /\ Done(t, {"append_str"})
        /\ Top(t).h # Top(t).o
        /\ Top(t).pre.val[Top(t).o] # << >>
        /\ Val(Top(t).h) = Top(t).pre.val[Top(t).h] \o Top(t).pre.val[Top(t).o]
        /\ At(u, "assign_cstr")
        /\ Top(u).h = Top(t).o
        /\ Top(u).s # Val(Top(t).o)

\* C10: no public function touches a shared rep, count or workspace without
\* holding the string lock.
C10_AllUnderLock == unlockedAcc = {}

\* A frame without its string_node pointers (Store renames them in every frame).
Body(f) == [f EXCEPT !.ptr = NULL, !.ptr2 = NULL, !.new_node = NULL]

\* This step is a step of thread t.
Acts(t) ==
    [i \in 1 .. Len(stack[t]) |-> Body(stack[t][i])]
        # [i \in 1 .. Len(stack'[t]) |-> Body(stack'[t][i])]

\* The number of string_nodes of the heap nd with count c and characters w.
NodesLike(nd, c, w) ==
    Cardinality({n \in Nodes : nd[n].alloc /\ nd[n].count = c /\ nd[n].workspace = w})

Finished(t) == ~Running(t) /\ ip[t] = Len(prog.calls[t])

\* Thread t has something left to do and cannot take a step.
Blocked(t) == ~Finished(t) /\ ~ENABLED StepP(t)

\* The values the objects have after the assignment c, by the meaning of `=`.
Assigned(v, c) == [v EXCEPT ![c.h] = v[c.o]]

\* The values the objects of the program start with.
StartVal == [h \in DOMAIN prog.own |-> prog.val[prog.own[h]]]

\* C13: with thread 1 running A = B and thread 2 running C = D (or B = A),
\* A and D sharing one buffer and B and C another, the two threads are never
\* both blocked; both assignments complete; and then every count is the
\* number of objects pointing to the buffer and the values are those of the
\* two assignments run one after the other, in one order or the other.
C13_NoDeadlock ==
    /\ [](prog \in AssignPrograms =>
            /\ ~(\A t \in Threads : Blocked(t))
            /\ (\A t \in Threads : Finished(t)) =>
                   /\ \A n \in Nodes : node[n].alloc => node[n].count = Refs(n) /\ Refs(n) >= 1
                   /\ \E t \in Threads : \E u \in Threads \ {t} :
                          [h \in DOMAIN prog.own |-> Val(h)]
                              = Assigned(Assigned(StartVal, prog.calls[t][1]), prog.calls[u][1]))
    /\ (prog \in AssignPrograms => <>(\A t \in Threads : Finished(t)))

\* Thread 2 is waiting for the lock that thread 1 holds inside A = B, and the
\* representation thread 2 is about to release is the one A has just adopted.
C13_Witness ==
    /\ prog \in AssignPrograms
    /\ At("t1", "return")
    /\ holds["t1"] = 1
    /\ Blocked("t2")
    /\ rep["A"] = rep["B"]
    /\ rep["C"] = rep["A"]

\* k times the character 'x'.
Xs(k) == [i \in 1 .. k |-> "x"]

\* C14: while one thread repeats A = B and the other A.append( "x" ), with B
\* holding "Hello!" and A empty at first, B's value stays "Hello!", A's value
\* is k times 'x' or "Hello!" followed by k times 'x', no string_node A or B
\* points to has been deleted, the threads are never both blocked, and both
\* threads come to the end of their loops.
C14_SmokeTest ==
    /\ [](prog \in SmokePrograms =>
            /\ Val("B") = Hello
            /\ \E k \in 0 .. Rounds : Val("A") = Xs(k) \/ Val("A") = Hello \o Xs(k)
            /\ IsNode(node, rep["A"]) /\ IsNode(node, rep["B"])
            /\ ub = {}
            /\ ~(\A t \in Threads : Blocked(t)))
    /\ (prog \in SmokePrograms => <>(\A t \in Threads : Finished(t)))

\* The appender has appended to the buffer A shared with B after an A = B, and
\* the assigner is waiting for the lock the appender still holds.
C14_Witness ==
    /\ prog \in SmokePrograms
    /\ Val("A") = Hello \o Xs(1)
    /\ Val("B") = Hello
    /\ At("t2", "return")
    /\ Top("t2").pre.rep["A"] = Top("t2").pre.rep["B"]
    /\ Blocked("t1")

\* The first call of the one thread of a one-thread program.
TheCall == prog.calls["t1"][1]

\* The text x repeated n times.
Copies(x, n) == [i \in 1 .. n * Len(x) |-> x[((i - 1) % Len(x)) + 1]]

\* C18: append( x ) leaves this with its old value followed by x, longer by
\* the length of x, for x a RexxString (also this itself, or an object that
\* shares its buffer), a C-string (also one that points at this's own
\* characters) or a char; and n appends of the same x to an empty string
\* give x n times.
C18_Append ==
    /\ \A t \in Threads : Done(t, {"append_str", "append_cstr", "append_char"}) =>
          LET f == Top(t)
              x == IF f.k = "append_str" \/ f.o # "" THEN f.pre.val[f.o] ELSE f.s
          IN  /\ Val(f.h) = f.pre.val[f.h] \o x
              /\ Len(Val(f.h)) = Len(f.pre.val[f.h]) + Len(x)
    /\ (prog \in RepeatPrograms /\ ~Running("t1")) =>
          Val("A") = Copies(IF TheCall.k = "append_str" THEN StartVal[TheCall.o] ELSE TheCall.s,
                            ip["t1"])

\* a.append( static_cast<const char *>( a ) ) has run on a non-empty a.
C18_Witness ==
    \E t \in Threads :
        /\ Done(t, {"append_cstr"})
        /\ Top(t).o = Top(t).h
        /\ Top(t).pre.val[Top(t).h] = <<"x", "a">>
        /\ Val(Top(t).h) = <<"x", "a", "x", "a">>

\* The number of the program's objects that start on the string_node of h.
StartCount(h) == Cardinality({g \in DOMAIN prog.own : prog.own[g] = prog.own[h]})

\* The program's objects have the values, the string_nodes and the counts they
\* started with.
AsAtStart ==
    \A h \in DOMAIN prog.own :
        /\ live[h]
        /\ Val(h) = StartVal[h]
        /\ rep[h] = Home(prog.own[h])
        /\ node[rep[h]].by = NoTag
        /\ node[rep[h]].count = StartCount(h)

\* C19: each of the five operator+ overloads returns the left operand's value
\* followed by the right operand's; as it returns, both operands have their
\* values, their buffers and their buffers' counts as before the call, and the
\* result has a buffer of its own, with count 1.
C19_Plus ==
    \A t \in Threads : (prog \in PlusPrograms /\ Returning(t, PlusKinds)) =>
        LET f == Top(t)
            L == IF f.h # "" THEN StartVal[f.h] ELSE f.s
            R == IF f.o # "" THEN StartVal[f.o] ELSE f.s
        IN  /\ live[Ret(t)]
            /\ Val(Ret(t)) = L \o R
            /\ AsAtStart
            /\ IsNode(node, rep[Ret(t)])
            /\ node[rep[Ret(t)]].count = 1
            /\ Refs(rep[Ret(t)]) = 1
            /\ ~live[Tmp(t)]

\* 'x' + A has returned for an A that shares its buffer with B.
C19_Witness ==
    \E t \in Threads :
        /\ prog \in PlusPrograms
        /\ Returning(t, {"plus_ht"})
        /\ StartCount("A") = 2
        /\ StartVal["A"] = <<"x", "a">>
        /\ Val(Ret(t)) = <<"x", "x", "a">>
        /\ node[rep["A"]].count = 2

\* C17: while A is not assigned to, appended to, erased or destroyed, the
\* pointer its conversion to const char * returned stays the workspace of A's
\* string_node, which is not deleted and keeps its characters, whatever is
\* done to the objects that share it; the characters read through the pointer
\* are A's.
C17_PointerValid ==
    \A t \in Threads : (prog \in ConvPrograms /\ Running(t) /\ Top(t).k = "conv") =>
        /\ IsNode(node, Top(t).ptr)
        /\ Top(t).ptr = rep[Top(t).h]
        /\ Text(node, Top(t).ptr) = StartVal[Top(t).h]
        /\ At(t, "return") => Top(t).res = StartVal[Top(t).h]

\* The pointer is still in use after the object that shared A's buffer has
\* been destroyed.
C17_Witness ==
    /\ prog \in ConvPrograms
    /\ At("t1", "conv_use")
    /\ StartCount("A") = 2
    /\ ~live["B"]
    /\ Finished("t2")
    /\ node[Top("t1").ptr].count = 1
    /\ Text(node, Top("t1").ptr) = <<"x", "a">>

\* C20: left( length, pad ) returns a string of exactly length characters:
\* character i is character i of this where this has one, and pad after
\* that; so the text is cut on the right when it is longer, returned as it
\* is when length is its length, and "Junk".left( 9, '-' ) is "Junk-----".
C20_Left ==
    \A t \in Threads : (prog \in LeftPrograms /\ Returning(t, {"left"})) =>
        LET f == Top(t)
            T == StartVal[f.h]
        IN  /\ live[Ret(t)]
            /\ Len(Val(Ret(t))) = f.n
            /\ \A i \in 1 .. f.n : Val(Ret(t))[i] = IF i <= Len(T) THEN T[i] ELSE f.s[1]
            /\ f.n = Len(T) => Val(Ret(t)) = T
            /\ (T = Junk /\ f.n = 9 /\ f.s = <<"-">>) =>
                  Val(Ret(t)) = <<"J", "u", "n", "k", "-", "-", "-", "-", "-">>

\* "Junk".left( 9, '-' ) has returned "Junk-----".
C20_Witness ==
    \E t \in Threads :
        /\ prog \in LeftPrograms
        /\ Returning(t, {"left"})
        /\ StartVal["A"] = Junk
        /\ Top(t).n = 9
        /\ Val(Ret(t)) = Junk \o <<"-", "-", "-", "-", "-">>

\* The kinds of call that return a number.
QueryKinds == {"words", "pos", "pos_str", "last_pos", "length"}

\* C16: through a call of left, right, center, copy, erase( pos, count ),
\* insert, strip, substr, subword, word, words, pos, last_pos or length on
\* A, with every argument, and through an append to the returned string and
\* its destruction after the call, A and the other object keep their values
\* and their string_nodes, which are not written; when all is done the
\* counts are as at the start.
C16_NonMutating ==
    (prog \in TransformPrograms \cup LeftPrograms) =>
        /\ \A h \in DOMAIN prog.own :
              /\ live[h]
              /\ Val(h) = StartVal[h]
              /\ rep[h] = Home(prog.own[h])
              /\ node[rep[h]].by = NoTag
              /\ node[rep[h]].count >= StartCount(h)
        /\ Finished("t1") => AsAtStart

\* erase( pos, 0 ) returned a string that shares A's string_node, and a
\* character has been appended to that string.
C16_Witness ==
    /\ prog \in TransformPrograms
    /\ TheCall.k = "erase2"
    /\ TheCall.m = 0
    /\ StartCount("A") = 2
    /\ ip["t1"] = 2
    /\ ~Running("t1")
    /\ Val("ret1") = <<"x", "a", "x">>
    /\ Val("A") = <<"x", "a">>
    /\ node[rep["A"]].count = 2

\* Thread t, inside a method that returns a new string, calls a member function.
NestedCall(t) ==
    /\ Running(t)
    /\ Top(t).k \in TransformKinds
    /\ Len(stack'[t]) = Len(stack[t]) + 1

\* C12: when center calls left, subword calls words, erase( pos, count ) and
\* insert assign result = *this, and a method that returns a new string
\* copies or destroys its local result, the thread holds the string lock, no
\* other thread does, and the call takes the lock once more: a lock that
\* the holder cannot take again would stop the thread there for ever.  With
\* the recursive lock every one of these calls returns.
C12_Reentrant ==
    /\ [][\A t \in Threads : NestedCall(t) =>
            /\ holds[t] >= 1
            /\ \A u \in Threads \ {t} : holds[u] = 0
            /\ holds'[t] = holds[t] + 1
            /\ stack'[t][Len(stack'[t])].locked]_vars
    /\ [](prog \in TransformPrograms \cup LeftPrograms => ~Blocked("t1"))
    /\ (prog \in TransformPrograms \cup LeftPrograms => <>Finished("t1"))

\* center has called left and left holds the lock a second time.
C12_Witness ==
    /\ Len(stack["t1"]) = 2
    /\ stack["t1"][1].k = "center"
    /\ stack["t1"][2].k = "left"
    /\ stack["t1"][2].locked
    /\ holds["t1"] = 2

\* C15: when std::bad_alloc reaches the client, from any allocation of any
\* method, every object of the program has the value, the string_node and
\* the count it had before the call, no other object and no other
\* string_node exists, and the lock is free.
C15_StrongGuarantee ==
    \A t \in Threads : (MayFail /\ At(t, "thrown")) =>
        /\ AsAtStart
        /\ \A h \in Handles \ DOMAIN prog.own : ~live[h] /\ rep[h] = NULL
        /\ \A n \in Nodes : node[n].alloc => \E h \in DOMAIN prog.own : rep[h] = n
        /\ \A u \in Threads : holds[u] = 0

\* operator>> has read a character and appended it to temp, the next append
\* failed, and the exception has reached the client.
C15_Witness ==
    /\ MayFail
    /\ At("t1", "thrown")
    /\ Top("t1").k = "extract"
    /\ Top("t1").cnt = 1
    /\ StartCount("A") = 2
    /\ Val("A") = <<"x", "a">>

\* Thread t's call of method k, the first call of a program that calls the
\* methods with every argument or as the unit tests do, is returning.
Returned(t, k) == prog \in TransformPrograms \cup UnitPrograms /\ Returning(t, {k})

\* C21: right( len, pad ) returns exactly len characters: max( 0, len - n )
\* pads, then the last min( len, n ) characters of T; T.right( n, pad ) is
\* T, and "Junk".right( 9, '-' ) is "-----Junk".
C21_Right ==
    \A t \in Threads : Returned(t, "right") =>
        LET T == StartVal[Top(t).h]
            len == Top(t).n
            R == Val(Ret(t))
        IN  /\ Len(R) = len
            /\ \A i \in 1 .. len :
                  R[i] = IF i <= len - Len(T) THEN Top(t).s[1] ELSE T[Len(T) - len + i]
            /\ len = Len(T) => R = T
            /\ (T = Junk /\ len = 9) => R = <<"-", "-", "-", "-", "-", "J", "u", "n", "k">>

\* right( 1, pad ) of a text of two characters has returned its last character.
C21_Witness ==
    \E t \in Threads :
        /\ Returned(t, "right")
        /\ StartVal["A"] = <<"x", "a">>
        /\ Top(t).n = 1
        /\ Val(Ret(t)) = <<"a">>

\* C22: center( len, pad ) returns what left( len, pad ) returns when
\* len <= n, the first len characters of T; otherwise floor( (len - n) / 2 )
\* pads, T, and the rest of the len - n pads, the odd one on the right;
\* "Junk".center( 11, '-' ) is "---Junk----".
C22_Center ==
    \A t \in Threads : Returned(t, "center") =>
        LET T == StartVal[Top(t).h]
            len == Top(t).n
            k == IF len > Len(T) THEN (len - Len(T)) \div 2 ELSE 0
            R == Val(Ret(t))
        IN  /\ Len(R) = len
            /\ \A i \in 1 .. len :
                  R[i] = IF i > k /\ i <= k + Len(T) THEN T[i - k] ELSE Top(t).s[1]
            /\ (len > Len(T) /\ (len - Len(T)) % 2 = 1) => R[len] = Top(t).s[1] /\ len - Len(T) - k = k + 1
            /\ (T = Junk /\ len = 11) =>
                  R = <<"-", "-", "-", "J", "u", "n", "k", "-", "-", "-", "-">>

\* center( 3, pad ) of a text of two characters has returned the text and
\* one pad on the right.
C22_Witness ==
    \E t \in Threads :
        /\ Returned(t, "center")
        /\ StartVal["A"] = <<"x", "a">>
        /\ Top(t).n = 3
        /\ Val(Ret(t)) = <<"x", "a", Top(t).s[1]>>

\* C23: copy( count ) returns T count times over: count * n characters,
\* character i being character ((i - 1) mod n) + 1 of T; copy( 0 ) is empty,
\* copy( 1 ) is T, and "Junk".copy( 5 ) is "JunkJunkJunkJunkJunk".
C23_Copy ==
    \A t \in Threads : Returned(t, "copy") =>
        LET T == StartVal[Top(t).h]
            R == Val(Ret(t))
        IN  /\ Len(R) = Top(t).n * Len(T)
            /\ \A i \in 1 .. Len(R) : R[i] = T[((i - 1) % Len(T)) + 1]
            /\ Top(t).n = 0 => R = << >>
            /\ Top(t).n = 1 => R = T
            /\ (T = Junk /\ Top(t).n = 5) => R = Junk \o Junk \o Junk \o Junk \o Junk

\* copy( 2 ) of a text of two characters has returned four characters.
C23_Witness ==
    \E t \in Threads :
        /\ Returned(t, "copy")
        /\ StartVal["A"] = <<"x", "a">>
        /\ Top(t).n = 2
        /\ Val(Ret(t)) = <<"x", "a", "x", "a">>

\* The lesser of count and the characters from position pos to the end of T.
Clamped(T, pos, count) == IF count < Len(T) - pos + 1 THEN count ELSE Len(T) - pos + 1

\* C24: erase( pos, count ) with 1 <= pos <= n and count >= 1 returns T
\* without the min( count, n - pos + 1 ) characters from position pos on,
\* also for the largest count; with pos beyond the end or count 0 it returns
\* a string equal to T; so erase( 1, largest ) is empty and
\* "Junk".erase( 2, 2 ) is "Jk".
C24_Erase ==
    \A t \in Threads : Returned(t, "erase2") =>
        LET T == StartVal[Top(t).h]
            pos == Top(t).n
            k == Clamped(T, pos, Top(t).m)
            R == Val(Ret(t))
        IN  /\ (1 <= pos /\ pos <= Len(T) /\ Top(t).m >= 1) =>
                  /\ Len(R) = Len(T) - k
                  /\ \A i \in 1 .. Len(R) : R[i] = IF i < pos THEN T[i] ELSE T[i + k]
            /\ (pos > Len(T) \/ Top(t).m = 0) => R = T
            /\ (pos = 1 /\ Top(t).m = SIZE_MAX) => R = << >>
            /\ (T = Junk /\ pos = 2 /\ Top(t).m = 2) => R = <<"J", "k">>

\* erase( 2, largest ) of a text of two characters has returned the first.
C24_Witness ==
    \E t \in Threads :
        /\ Returned(t, "erase2")
        /\ StartVal["A"] = <<"x", "a">>
        /\ Top(t).n = 2
        /\ Top(t).m = SIZE_MAX
        /\ Val(Ret(t)) = <<"x">>

\* C25: insert( other, pos, count ) with 1 <= pos <= n + 1 and count >= 1
\* returns the first pos - 1 characters of T, the first
\* min( count, length( other ) ) characters of other, and the rest of T, so
\* pos n + 1 appends and pos 1 prepends; with pos > n + 1 or count 0 it
\* returns a string equal to T; other may be this itself;
\* "Junk".insert( "xxxx", 2, 3 ) is "Jxxxunk".
C25_Insert ==
    \A t \in Threads : Returned(t, "insert") =>
        LET T == StartVal[Top(t).h]
            I == StartVal[Top(t).o]
            pos == Top(t).n
            k == IF Top(t).m < Len(I) THEN Top(t).m ELSE Len(I)
            R == Val(Ret(t))
        IN  /\ (1 <= pos /\ pos <= Len(T) + 1 /\ Top(t).m >= 1) =>
                  /\ Len(R) = Len(T) + k
                  /\ \A i \in 1 .. Len(R) :
                        R[i] = IF i < pos THEN T[i]
                               ELSE IF i < pos + k THEN I[i - pos + 1] ELSE T[i - k]
                  /\ pos = Len(T) + 1 => R = T \o SubSeq(I, 1, k)
                  /\ pos = 1 => R = SubSeq(I, 1, k) \o T
            /\ (pos > Len(T) + 1 \/ Top(t).m = 0) => R = T
            /\ (T = Junk /\ pos = 2 /\ Top(t).m = 3 /\ Top(t).o = "B") =>
                  R = <<"J", "x", "x", "x", "u", "n", "k">>

\* A text of two characters has been inserted into itself, one character of
\* it before the second character.
C25_Witness ==
    \E t \in Threads :
        /\ Returned(t, "insert")
        /\ Top(t).o = Top(t).h
        /\ StartVal["A"] = <<"x", "a">>
        /\ Top(t).n = 2
        /\ Top(t).m = 1
        /\ Val(Ret(t)) = <<"x", "x", "a">>

\* C26: substr( pos, count ) with 1 <= pos <= n returns the
\* min( count, n - pos + 1 ) characters of T from position pos on, and the
\* empty string with pos beyond the end; so substr( p, 1 ) is character p of
\* T and substr( n + 1, c ) is empty.
C26_Substr ==
    \A t \in Threads : Returned(t, "substr") =>
        LET T == StartVal[Top(t).h]
            pos == Top(t).n
            R == Val(Ret(t))
        IN  /\ (1 <= pos /\ pos <= Len(T)) =>
                  /\ Len(R) = Clamped(T, pos, Top(t).m)
                  /\ \A i \in 1 .. Len(R) : R[i] = T[pos + i - 1]
                  /\ Top(t).m = 1 => R = <<T[pos]>>
            /\ pos > Len(T) => R = << >>
            /\ (T = Junk /\ pos = 2 /\ Top(t).m = 2) => R = <<"u", "n">>

\* substr( 2, 1 ) of a text of two characters has returned the second.
C26_Witness ==
    \E t \in Threads :
        /\ Returned(t, "substr")
        /\ StartVal["A"] = <<"x", "a">>
        /\ Top(t).n = 2
        /\ Top(t).m = 1
        /\ Val(Ret(t)) = <<"a">>

\* C27: with C = A + B, for all texts A and B, C.length( ) is
\* A.length( ) + B.length( ), C.substr( 1, A.length( ) ) is A and
\* C.substr( A.length( ) + 1, B.length( ) ) is B.
C27_ConcatIdentity ==
    \A t \in Threads : (prog \in ConcatPrograms /\ At(t, "return") /\ Len(stack[t]) = 1) =>
        LET A == StartVal["A"]
            B == StartVal["B"]
            c == Top(t)
        IN  /\ c.k = "length" => c.res = Len(A) + Len(B)
            /\ (c.k = "substr" /\ c.n = 1 /\ c.m = Len(A)) => Val(Ret(t)) = A
            /\ (c.k = "substr" /\ c.n = Len(A) + 1 /\ c.m = Len(B)) => Val(Ret(t)) = B

\* The second part of "x" + "ax" has been returned.
C27_Witness ==
    \E t \in Threads :
        /\ prog \in ConcatPrograms
        /\ Returning(t, {"substr"})
        /\ StartVal["A"] = <<"x">>
        /\ StartVal["B"] = <<"a", "x">>
        /\ Val("C") = <<"x", "a", "x">>
        /\ Top(t).n = 2
        /\ Val(Ret(t)) = <<"a", "x">>

\* The number a call that is returning returns.
Res(t) == Top(t).res

\* C28: pos( needle, start ), needle a character or a C-string and
\* start >= 1, returns the least r >= start at which needle occurs in T,
\* and 0 if there is none or start is beyond the text; a result that is not
\* 0 is at least start and at most length( T ).
C28_Literal ==
    \A t \in Threads : (Returned(t, "pos") \/ Returned(t, "pos_str")) /\ Top(t).n >= 1 =>
        LET T == StartVal[Top(t).h]
            needle == Top(t).s
            Occ == {r \in Top(t).n .. Len(T) :
                      /\ r + Len(needle) - 1 <= Len(T)
                      /\ SubSeq(T, r, r + Len(needle) - 1) = needle}
        IN  /\ Res(t) = IF Occ = {} THEN 0 ELSE Least(Occ)
            /\ Top(t).n > Len(T) => Res(t) = 0
            /\ Res(t) # 0 => Top(t).n <= Res(t) /\ Res(t) <= Len(T)

\* C29: pos( '\0', start ) returns 0 for every text and every start, and no
\* call of pos returns an index greater than length( T ).
C29_Literal ==
    \A t \in Threads : (Returned(t, "pos") \/ Returned(t, "pos_str")) =>
        /\ (Top(t).k = "pos" /\ Top(t).s = <<NUL>>) => Res(t) = 0
        /\ Res(t) <= Len(StartVal[Top(t).h])

\* C30: last_pos( needle, start ), for every start from 0 to the largest
\* size_t, returns the greatest r <= start with T[r] = needle, a start
\* beyond the end counting as the end, and 0 if there is none.
C30_Literal ==
    \A t \in Threads : Returned(t, "last_pos") =>
        LET T == StartVal[Top(t).h]
            Occ == {r \in 1 .. Min(Top(t).n, Len(T)) : T[r] = Top(t).s[1]}
        IN  Res(t) = IF Occ = {} THEN 0 ELSE Greatest(Occ)

\* What the method on top of thread t's stack found in `this` when it took
\* the lock.
Found_this(t) == Top(t).pre.val[Top(t).h]

\* The number of characters of the longest run of c that T starts with.
LeadingRun(T, c) ==
    Greatest({k \in 0 .. Len(T) : \A i \in 1 .. k : T[i] = c})

\* The number of characters of the longest run of c that T ends with.
TrailingRun(T, c) ==
    Greatest({k \in 0 .. Len(T) : \A i \in Len(T) - k + 1 .. Len(T) : T[i] = c})

\* C31: strip( mode, kill_char ) returns T without its longest leading run
\* of kill_char in mode 'L', without its longest trailing run in mode 'T'
\* and without both in mode 'B', the characters between the runs unchanged;
\* an empty T and a T of kill_chars only give the empty string; the same
\* strip of the result returns the result; "###Junk###".strip( 'B', '#' ) is
\* "Junk".
C31_Strip ==
    \A t \in Threads : Returning(t, {"strip"}) /\ prog \in StripPrograms =>
        LET T == Found_this(t)
            mode == Top(t).s[1]
            lead == IF mode \in {"L", "B"} THEN LeadingRun(T, Top(t).s[2]) ELSE 0
            trail == IF mode \in {"T", "B"} THEN TrailingRun(T, Top(t).s[2]) ELSE 0
            R == Val(Ret(t))
        IN  /\ R = IF lead + trail >= Len(T) THEN << >> ELSE SubSeq(T, lead + 1, Len(T) - trail)
            /\ (T = << >> \/ \A i \in 1 .. Len(T) : T[i] = Top(t).s[2]) => R = << >>
            /\ Top(t).h = "C" => R = T
            /\ (T = StartVal["A"] /\ Len(T) = 10 /\ mode = "B" /\ Top(t).s[2] = "#") => R = Junk

\* "###Junk###".strip( 'B', '#' ) has returned "Junk", and the strip of that
\* "Junk" is returning "Junk" again.
C31_Witness ==
    \E t \in Threads :
        /\ prog \in StripPrograms
        /\ Returning(t, {"strip"})
        /\ Len(StartVal["A"]) = 10
        /\ Top(t).s = <<"B", "#">>
        /\ Top(t).h = "C"
        /\ Found_this(t) = Junk
        /\ Val(Ret(t)) = Junk

\* Character ch is a delimiter: one of the characters of the delimiter string
\* white, or, when there is none, one of the six white space characters.
Delimiter(ch, white) ==
    IF white = nullptr THEN ch \in {" ", "\t", "VT", "\r", "\n", "\f"}
    ELSE \E j \in 1 .. Len(white) : white[j] = ch

\* The places where a word of T starts: a character that is no delimiter,
\* the first of T or right after a delimiter.
WordStarts(T, white) ==
    {i \in 1 .. Len(T) : ~Delimiter(T[i], white) /\ (i = 1 \/ Delimiter(T[i - 1], white))}

\* C32: words( delims ) returns the number of longest runs of characters
\* of T that are not delimiters, every character of a delimiter string being
\* a delimiter of its own and, without a delimiter string, space, tab,
\* vertical tab, carriage return, newline and form feed; delimiters at the
\* front, at the back and repeated add no words; "I love my junk".words( " " )
\* is 4.
C32_Words ==
    \A t \in Threads : Returning(t, {"words"}) /\ prog \in WordsPrograms =>
        /\ Res(t) = Cardinality(WordStarts(Found_this(t), Top(t).s))
        /\ (Found_this(t) = ILove /\ Top(t).s = <<" ">>) => Res(t) = 4

\* words( "xyz" ) of "HixTyzYz" is returning 3.
C32_Witness ==
    \E t \in Threads :
        /\ prog \in WordsPrograms
        /\ Returning(t, {"words"})
        /\ Top(t).s = <<"x", "y", "z">>
        /\ Len(Found_this(t)) = 8
        /\ Res(t) = 3

\* The places where a word of T ends: a character that is no delimiter, the
\* last of T or right before a delimiter.
WordEnds(T, white) ==
    {i \in 1 .. Len(T) : ~Delimiter(T[i], white) /\ (i = Len(T) \/ Delimiter(T[i + 1], white))}

\* The characters of T from the first of word number first to the last of
\* word number last.
FromWordToWord(T, white, first, last) ==
    SubSeq(T, Nth(WordStarts(T, white), first - 1), Nth(WordEnds(T, white), last - 1))

\* C33: subword( pos, count, delims ), for 1 <= pos <= words( delims ) and
\* count >= 1, returns T from the first character of word pos to the last
\* character of word pos + min( count, words - pos + 1 ) - 1, the delimiters
\* between those words kept and none before or after; it returns the empty
\* string when pos is beyond the last word or count is 0; word( pos, delims )
\* is subword( pos, 1, delims ), not empty exactly for pos in 1 .. words;
\* "I love my junk".subword( 2, 2, " " ) is "love my".
C33_Subword ==
    \A t \in Threads : Returning(t, {"subword", "word"}) /\ prog \in SubwordPrograms =>
        LET T == Found_this(t)
            white == Top(t).s
            pos == Top(t).n
            count == Top(t).m
            words == Cardinality(WordStarts(T, white))
            R == Val(Ret(t))
        IN  /\ (1 <= pos /\ pos <= words /\ count >= 1) =>
                  /\ R = FromWordToWord(T, white, pos, pos + Min(count, words - pos + 1) - 1)
                  /\ ~Delimiter(R[1], white) /\ ~Delimiter(R[Len(R)], white)
            /\ (pos > words \/ count = 0) => R = << >>
            /\ Top(t).k = "word" => (R # << >> <=> (1 <= pos /\ pos <= words))
            /\ (Top(t).k = "subword" /\ count = 1) => R = Val("C")
            /\ (T = ILove /\ white = <<" ">> /\ pos = 2 /\ count = 2) =>
                  R = <<"l", "o", "v", "e", " ", "m", "y">>

\* "I love my junk".subword( 3, 4, " " ) is returning "my junk", the two
\* words that are left.
C33_Witness ==
    \E t \in Threads :
        /\ prog \in SubwordPrograms
        /\ Returning(t, {"subword"})
        /\ Found_this(t) = ILove
        /\ Top(t).s = <<" ">>
        /\ Top(t).n = 3
        /\ Top(t).m = 4
        /\ Val(Ret(t)) = <<"m", "y", " ", "j", "u", "n", "k">>

\* Text a comes before text b, byte by byte: a is the start of b and
\* shorter, or the first byte in which they differ is the smaller one in a.
Before(a, b) ==
    \E k \in 0 .. Min(Len(a), Len(b)) :
        /\ SubSeq(a, 1, k) = SubSeq(b, 1, k)
        /\ \/ k = Len(a) /\ k < Len(b)
           \/ k < Len(a) /\ k < Len(b) /\ Byte(a[k + 1]) < Byte(b[k + 1])

\* The number of the formulas S that are true.
HowMany(S) == Cardinality({i \in 1 .. Len(S) : S[i]})

\* C34: the relational operators depend on the texts only, not on the
\* sharing of a buffer: a == b is true exactly when the texts are equal,
\* a < b when a comes before b byte by byte, a > b is b < a, a != b is
\* !( a == b ), a >= b is !( a < b ), a <= b is !( b < a ), and of a < b,
\* a == b and a > b exactly one is true.
C34_Relational ==
    \A t \in Threads : Returning(t, RelKinds \cup {"eq"}) /\ prog \in ComparePrograms =>
        LET a == StartVal[Top(t).h]
            b == StartVal[Top(t).o]
            k == Top(t).k
        IN  /\ k = "eq" => Res(t) = (a = b)
            /\ k = "lt" => Res(t) = Before(a, b)
            /\ k = "gt" => Res(t) = Before(b, a)
            /\ k = "ne" => Res(t) = ~(a = b)
            /\ k = "ge" => Res(t) = ~Before(a, b)
            /\ k = "le" => Res(t) = ~Before(b, a)
            /\ HowMany(<<Before(a, b), a = b, Before(b, a)>>) = 1

\* A > B is returning false for A and B with the same text "ax" in two
\* buffers.
C34_Witness ==
    \E t \in Threads :
        /\ prog \in ComparePrograms
        /\ Returning(t, {"gt"})
        /\ Top(t).o = "B"
        /\ rep["A"] # rep["B"]
        /\ Val("A") = <<"a", "x">>
        /\ Val("B") = <<"a", "x">>
        /\ Res(t) = FALSE

\* The place of the first newline of the input, or the place after its last
\* character when it has none.
LineEnd(input) ==
    Least({i \in 1 .. Len(input) + 1 : i = Len(input) + 1 \/ input[i] = "\n"})

\* C35: is >> s reads one line: it takes the characters up to and including
\* the first newline (or up to the end of the input) out of the stream, and
\* s becomes the characters before that newline, whatever s was, without the
\* newline; the rest of the input stays in the stream, and the objects that
\* shared the old buffer of s keep their value.
C35_Extract ==
    \A t \in Threads : Returning(t, {"extract"}) /\ prog \in ExtractPrograms =>
        LET input == Top(t).s
            taken == Top(t).cnt
        IN  /\ taken = Min(LineEnd(input), Len(input))
            /\ Val(Top(t).h) = SubSeq(input, 1, LineEnd(input) - 1)
            /\ \A i \in 1 .. Len(Val(Top(t).h)) : Val(Top(t).h)[i] # "\n"
            /\ \A h \in DOMAIN prog.own \ {Top(t).h} : live[h] /\ Val(h) = StartVal[h]
            /\ ~live[Tmp(t)]

\* "a\n\nx" >> A is returning: A, which was "xa" in a buffer shared with
\* B, is "a", B is still "xa", and "\nx" is left in the stream.
C35_Witness ==
    \E t \in Threads :
        /\ prog \in ExtractPrograms
        /\ Returning(t, {"extract"})
        /\ Top(t).s = <<"a", "\n", "\n", "x">>
        /\ Top(t).cnt = 2
        /\ prog.own["B"] = "A"
        /\ StartVal["A"] = <<"x", "a">>
        /\ Val("A") = <<"a">>
        /\ Val("B") = <<"x", "a">>

\* Thread t is in s = static_cast<const char *>( nullptr ).
InNullAssign(t) == Running(t) /\ Top(t).k = "assign_cstr" /\ Top(t).s = NullCStr

\* C36: the assignment of a null C-string pointer does nothing: every step
\* of it, from the call to the return, leaves the values, the buffer
\* pointers, the counts and the buffers of all objects as they are, allocates
\* nothing, takes no lock and throws nothing.
C36_NullAssign ==
    [][\A t \in Threads :
          (prog \in NullPrograms /\ stack'[t] # stack[t] /\ (InNullAssign(t) \/ InNullAssign(t)')) =>
              /\ UNCHANGED <<live, rep, node, holds, ub>>
              /\ InNullAssign(t)' => Top(t)'.pc = "return" /\ Top(t)'.new_node = NULL]_vars

\* The assignment of a null pointer to A is returning; A and B share the
\* buffer they started with, with count 2.
C36_Witness ==
    \E t \in Threads :
        /\ prog \in NullPrograms
        /\ InNullAssign(t)
        /\ At(t, "return")
        /\ rep["A"] = rep["B"]
        /\ node[rep["A"]].count = 2
        /\ Val("A") = StartVal["A"]

\* C37: a starting position of 0, whose offset position - 1 wraps around to
\* the largest size_t, is before the first character: insert( other, 0, c )
\* and erase( 0, c ) return the text T unchanged, substr( 0, c ) and
\* subword( 0, c, delims ) return the empty string, for every T, other, c
\* and delims.
C37_PositionZero ==
    \A t \in Threads :
        (/\ Returning(t, {"insert", "erase2", "substr", "subword"})
         /\ Top(t).n = 0
         /\ prog \in TransformPrograms) =>
            Val(Ret(t)) = IF Top(t).k \in {"insert", "erase2"} THEN Found_this(t) ELSE << >>

\* insert( B, 0, 1 ) is returning the text " a x " of A, of which B, with the
\* text "x", has put in nothing.
C37_Witness ==
    \E t \in Threads :
        /\ prog \in TransformPrograms
        /\ Returning(t, {"insert"})
        /\ Top(t).n = 0
        /\ Top(t).m = 1
        /\ Top(t).o = "B"
        /\ Val("B") = <<"x">>
        /\ Len(Found_this(t)) = 5
        /\ Val(Ret(t)) = Found_this(t)

\* The methods that take positions and counts, and strip.
RangeKinds == {"erase2", "insert", "substr", "subword", "word", "pos", "pos_str", "last_pos", "strip"}

\* The programs that call them with positions and counts from 0 to the
\* largest size_t.
RangeFamilies ==
    TransformPrograms \cup UnitPrograms \cup RangePrograms \cup StripPrograms

\* A call of one of these methods is returning: it has read no byte before
\* the first or beyond the null character of the buffers it reads, has
\* written no byte outside the array it allocated, and the buffer of the
\* string it returns has exactly one byte more than the string has characters.
InBounds ==
    \A t \in Threads : (Returning(t, RangeKinds) /\ prog \in RangeFamilies) =>
        /\ ub \cap {"underread", "overread", "overrun", "freed"} = {}
        /\ Top(t).k \notin {"pos", "pos_str", "last_pos"} =>
              /\ live[Ret(t)]
              /\ node[rep[Ret(t)]].cap = Len(Val(Ret(t))) + 1

RefAt(k) == RefRun(PrivateStart(prog), prog.calls["t1"], k)

\* C39: sharing is unobservable. In every program of construct, copy,
\* assign, append, erase( ), left, operator+ and destroy calls, between the
\* calls the same objects exist as with private copies and each has the
\* text its private copy has (what length and operator const char * give),
\* and length, ==, < and the conversion return what they return on the
\* private copies; no deleted string_node is used.
C39_SharingUnobservable ==
    prog \in SharePrograms =>
        LET v == RefAt(ip["t1"]) IN
        /\ ub = {}
        /\ ~Running("t1") =>
              \A h \in ShareHandles : live[h] = v[h].live /\ (live[h] => Val(h) = v[h].text)
        /\ Returning("t1", {"length"}) => Res("t1") = Len(v[Top("t1").h].text)
        /\ Returning("t1", {"conv"}) => Res("t1") = v[Top("t1").h].text
        /\ Returning("t1", {"eq"}) => Res("t1") = (v[Top("t1").h].text = v[Top("t1").o].text)
        /\ Returning("t1", {"lt"}) => Res("t1") = Before(v[Top("t1").h].text, v[Top("t1").o].text)

\* B shared A's string_node when the program started, two calls have
\* changed A, and the conversion of B is returning the text "a" B had.
C39_Witness ==
    /\ prog \in SharePrograms
    /\ prog.own["B"] = "A"
    /\ ip["t1"] = Len(prog.calls["t1"])
    /\ Returning("t1", {"conv"})
    /\ Res("t1") = <<"a">>
    /\ live["A"] /\ Val("A") # <<"a">>
    /\ \A i \in 1 .. 2 : prog.calls["t1"][i].h = "A"

\* The grabbers of the methods thread t is in that hold the lock.
Grabbers(t) == Cardinality({i \in 1 .. Len(stack[t]) : stack[t][i].locked})

\* Thread t is in no method: it has made no call, its call has returned, or
\* std::bad_alloc has reached the client.
Outside(t) == ~Running(t) \/ At(t, "thrown")

\* Thread t has a call to make or a step to take and cannot: the grabber
\* it is at does not get the lock.
Waiting(t) == ~At(t, "thrown") /\ Blocked(t)

\* A thread holds the lock once for each grabber of the methods it is in,
\* not at all outside a method, and waits only for a thread in a method.
Balanced ==
    \A t \in Threads :
        /\ holds[t] = Grabbers(t)
        /\ Outside(t) => holds[t] = 0
        /\ Waiting(t) => \E u \in Threads \ {t} : ~Outside(u) /\ holds[u] > 0

\* C40: lock balance. A thread holds the string lock once for each grabber
\* of the methods it is in and a step changes no grabber but that of the
\* innermost method, so when a method returns or std::bad_alloc leaves it,
\* nested in another method or not, the thread holds the lock as often as
\* before the call; the lock is free when no thread is in a method, and a
\* thread waits only while another thread is in a method and holds the lock.
C40_LockBalance ==
    /\ []Balanced
    /\ [][\A t \in Threads : \A i \in 1 .. Len(stack[t]) - 1 :
            stack'[t][i].locked = stack[t][i].locked]_vars

\* center, called with a length for which it returns left( length, pad ),
\* had taken the lock when an allocation failed; the exception has reached
\* the client and the lock is free.
C40_Witness ==
    /\ MayFail
    /\ At("t1", "thrown")
    /\ Top("t1").k = "center"
    /\ Top("t1").n <= Len(Val("A"))
    /\ Top("t1").pre # NoPre
    /\ LockFree

====
